---- MODULE Spec2Model ----
(***************************************************************************)
(* Model of the Hercules dubbing server and of its content scripts.        *)
(*                                                                         *)
(*   - SpecMerge     : mergeIntoSentences (routes/tts-translate.ts), the   *)
(*                     segment merger, applied to bounded fragment lists.  *)
(*   - SpecTTS       : the TTS session router (routes/tts-translate.ts):   *)
(*                     session creation, background translation, segment   *)
(*                     requests, generateSegmentAudio tasks and the cache. *)
(*   - SpecTranslate : translateAllSegments on sessions of more than one   *)
(*                     batch.                                              *)
(*   - SpecDub       : the time-chunk dubbing job (services/elevenlabs.ts):*)
(*                     createDubbingJob, the processNextChunk chain and    *)
(*                     requestChunk / processChunkPriority.                *)
(*   - SpecAhead     : the TTS session router on one session of several  *)
(*                     segments requested by playback position.            *)
(*   - SpecChunkSync : the chunk-based content script (unnamed/part_010):  *)
(*                     checkCurrentChunk, switchToChunk, the transport     *)
(*                     handlers, startChunkPlayback / stopPlayback.        *)
(*   - SpecSegmentSync : the segment-based content script                  *)
(*                     (content/src/matches/youtube/index.ts):             *)
(*                     updatePlayback, playSegmentAudio, preloading, the   *)
(*                     transport handlers, startTranslation /              *)
(*                     stopTranslation.                                    *)
(*   - SpecCreate    : POST /session from the request body: the URL        *)
(*                     test of extractVideoId, fetchTranscript with its    *)
(*                     fallback, and the cache keys of the sessions.       *)
(*   - SpecPoll      : pollChunkCompletion and pollForCompletion           *)
(*                     (services/elevenlabs.ts), attempt by attempt.       *)
(*   - SpecReads     : the read-only routes of both routers next to the    *)
(*                     steps of the TTS router and of the dubbing service. *)
(*   - SpecWarm      : SpecAhead started with a cached audio entry for the *)
(*                     first segment in the store.                         *)
(*                                                                         *)
(* Every specification fixes the variables of the other components to      *)
(* their idle values.  The key-value store has one connection, so its      *)
(* commands take effect in the order in which they are issued: a command   *)
(* acts on the store when it is issued and its reply resumes the caller in *)
(* a later step.                                                           *)
(*                                                                         *)
(* Conventions.  Strings are sequences of one-character strings, so that   *)
(* trimming, the punctuation test and concatenation are computed and not   *)
(* assumed.  Times are kept in milliseconds: the code stores               *)
(* seconds = ms / 1000 as a float, the model stores the numerator ms.      *)
(* An optional value (undefined / null in the code) is a sequence of       *)
(* length 0 (absent) or 1 (present).                                       *)
(***************************************************************************)
EXTENDS Integers, Sequences, FiniteSets, Bags, TLC

VARIABLES
    \* ---- segment merger (SpecMerge) ----
    rawSegments,     \* the argument of mergeIntoSentences
    targetDuration,  \* its targetDuration argument, in seconds
    mergeResult,     \* <<>> before the call, <<merged>> after it
    mergeClosedAt,   \* history: the loop indices i at which a segment was pushed
    \* ---- TTS sessions (SpecTTS) ----
    sessionObjs,     \* the TTSSession objects ever constructed, by session id
    sessions,        \* the keys of the `sessions` Map (ids that can be looked up)
    translating,     \* per session object: the translateAllSegments run
    audioTasks,      \* bag of generateSegmentAudio invocations that have not settled
    redis,           \* the tts-audio:* entries of the key-value store
    postReply,       \* the last response of POST /session: None or Some(reply)
    \* ---- time-chunk dubbing job (SpecDub) ----
    jobStore,        \* the job:<jobId> entry of the store: None or Some(job)
    dubCache,        \* the dub:<url>:<lang> entry of the store: None or Some(job)
    dubTasks,        \* bag of processNextChunk / processChunkPriority runs in flight
    pollRun,         \* a polling loop followed attempt by attempt (SpecPoll)
    \* ---- playback synchronizer, chunk-based (SpecChunkSync) ----
    chunkPage,       \* the page's video element and the content script's variables
    \* ---- playback synchronizer, segment-based (SpecSegmentSync) ----
    segmentPage      \* the page's video element, the content script's variables
                     \* and the server's ready segments

mergeVars == <<rawSegments, targetDuration, mergeResult, mergeClosedAt>>

ttsVars ==
    <<sessionObjs, sessions, translating, audioTasks, redis, postReply>>

dubVars == <<jobStore, dubCache, dubTasks, pollRun>>

pageVars == <<chunkPage, segmentPage>>

vars == <<mergeVars, ttsVars, dubVars, pageVars>>

----------------------------------------------------------------------------
(* Bounds of the model *)

\* Number of chunks of the longest video in SpecChunkSync.
MaxSyncChunks == 3

\* Largest number of suspended calls of the content script in SpecChunkSync.
MaxCalls == 1

\* Number of segments of the session in SpecSegmentSync.
MaxSyncSegments == 3

\* Largest number of suspended calls of the content script in SpecSegmentSync.
MaxSegmentCalls == 2

\* Largest number of chunks of the dubbing job in SpecDub.
MaxChunks == 2

\* Largest number of dubbing runs in flight at once in SpecDub.
MaxDubTasks == 3

\* Largest number of segments of the session in SpecAhead.
MaxAheadSegments == 4

\* Longest fragment list handed to mergeIntoSentences in SpecMerge.
MaxFragments == 3

\* SpecTTS: segments held by all sessions of a run together.  Every session has
\* at least one segment, so this also bounds the number of sessions.
MaxTotalSegments == 2

\* SpecTranslate: segments of the one session whose translation is followed.
MaxLongSegments == 11

----------------------------------------------------------------------------
(* Strings *)

None == <<>>
Some(x) == <<x>>

\* JavaScript truthiness of a string: only '' is falsy.
Truthy(s) == s # <<>>

\* The characters String.prototype.trim removes (those the model uses).
WhiteSpace == {" ", "\n", "\t"}

RECURSIVE TrimStart(_)
TrimStart(s) ==
    IF s # <<>> /\ Head(s) \in WhiteSpace THEN TrimStart(Tail(s)) ELSE s

RECURSIVE TrimEnd(_)
TrimEnd(s) ==
    IF s # <<>> /\ s[Len(s)] \in WhiteSpace
    THEN TrimEnd(SubSeq(s, 1, Len(s) - 1))
    ELSE s

Trim(s) == TrimEnd(TrimStart(s))

\* /[.!?]$/.test(text.trim())
EndsWithPunctuation(text) ==
    LET t == Trim(text)
    IN  t # <<>> /\ t[Len(t)] \in {".", "!", "?"}

----------------------------------------------------------------------------
(* Segment merger *)

\* targetDuration of mergeIntoSentences: 6 by default, 12 at session creation.
DefaultTargetDuration == 6
SessionTargetDuration == 12

\* The accumulator of the loop before its first iteration.
MergeStart ==
    [merged |-> <<>>, currentText |-> <<>>, startTime |-> 0, endTime |-> 0,
     segmentIndex |-> 0, closedAt |-> <<>>]

\* The segment pushed when the buffer closes.
NewSegment(index, text, startTime, endTime) ==
    [index |-> index,
     originalText |-> Trim(text),
     translatedText |-> <<>>,
     startTime |-> startTime,
     endTime |-> endTime,
     audioBuffer |-> None,
     audioReady |-> FALSE]

\* The buffer is taken to be empty when the accumulated text is ''.
BufferIsEmpty(acc) == acc.currentText = <<>>

\* The closing condition of the buffer.
ShouldCloseNoLast(duration, target, seg, isLastSegment) ==
    \/ duration >= target * 1000
    \/ EndsWithPunctuation(seg.text)

ShouldClose(duration, target, seg, isLastSegment) ==
    \/ duration >= target * 1000
    \/ EndsWithPunctuation(seg.text)
    \/ isLastSegment

\* One iteration of the for loop, on fragment raw[i] (the code's i is i - 1).
\* closedAt is a history field: it records where the buffer closed.
MergeBody(acc, raw, i, target) ==
    LET seg == raw[i]
        isLastSegment == i = Len(raw)
        segStartTime == seg.offset
        segEndTime == seg.offset + seg.duration
        startTime == IF BufferIsEmpty(acc) THEN segStartTime ELSE acc.startTime
        currentText ==
            acc.currentText
                \o (IF Truthy(acc.currentText) THEN <<" ">> ELSE <<>>)
                \o seg.text
        endTime == segEndTime
        duration == endTime - startTime
    IN  IF ShouldClose(duration, target, seg, isLastSegment)
        THEN [merged |-> Append(acc.merged,
                    NewSegment(acc.segmentIndex, currentText, startTime, endTime)),
              currentText |-> <<>>,
              startTime |-> startTime,
              endTime |-> endTime,
              segmentIndex |-> acc.segmentIndex + 1,
              closedAt |-> Append(acc.closedAt, i)]
        ELSE [merged |-> acc.merged,
              currentText |-> currentText,
              startTime |-> startTime,
              endTime |-> endTime,
              segmentIndex |-> acc.segmentIndex,
              closedAt |-> acc.closedAt]

RECURSIVE MergeLoop(_, _, _, _)
MergeLoop(raw, i, acc, target) ==
    IF i > Len(raw)
    THEN acc
    ELSE MergeLoop(raw, i + 1, MergeBody(acc, raw, i, target), target)

mergeIntoSentences(raw, target) == MergeLoop(raw, 1, MergeStart, target).merged


----------------------------------------------------------------------------
(* Audio buffers and their base64 form in the key-value store *)

B64Alphabet ==
    << "A", "B", "C", "D", "E", "F", "G", "H", "I", "J", "K", "L", "M",
       "N", "O", "P", "Q", "R", "S", "T", "U", "V", "W", "X", "Y", "Z",
       "a", "b", "c", "d", "e", "f", "g", "h", "i", "j", "k", "l", "m",
       "n", "o", "p", "q", "r", "s", "t", "u", "v", "w", "x", "y", "z",
       "0", "1", "2", "3", "4", "5", "6", "7", "8", "9", "+", "/" >>

B64Char(n) == B64Alphabet[n + 1]
B64Value(c) == (CHOOSE i \in 1..64 : B64Alphabet[i] = c) - 1

\* audioBuffer.toString('base64'), on a sequence of bytes
RECURSIVE ToBase64(_)
ToBase64(buf) ==
    IF Len(buf) = 0 THEN <<>>
    ELSE IF Len(buf) = 1 THEN
        << B64Char(buf[1] \div 4), B64Char((buf[1] % 4) * 16), "=", "=" >>
    ELSE IF Len(buf) = 2 THEN
        << B64Char(buf[1] \div 4),
           B64Char((buf[1] % 4) * 16 + buf[2] \div 16),
           B64Char((buf[2] % 16) * 4), "=" >>
    ELSE
        << B64Char(buf[1] \div 4),
           B64Char((buf[1] % 4) * 16 + buf[2] \div 16),
           B64Char((buf[2] % 16) * 4 + buf[3] \div 64),
           B64Char(buf[3] % 64) >>
        \o ToBase64(SubSeq(buf, 4, Len(buf)))

\* Buffer.from(cached, 'base64'), on the strings ToBase64 produces
RECURSIVE FromBase64(_)
FromBase64(str) ==
    IF Len(str) < 4 THEN <<>>
    ELSE
        LET v1 == B64Value(str[1])
            v2 == B64Value(str[2])
            rest == FromBase64(SubSeq(str, 5, Len(str)))
        IN  IF str[3] = "=" THEN << v1 * 4 + v2 \div 16 >>
            ELSE IF str[4] = "=" THEN
                << v1 * 4 + v2 \div 16, (v2 % 16) * 16 + B64Value(str[3]) \div 4 >>
            ELSE
                << v1 * 4 + v2 \div 16,
                   (v2 % 16) * 16 + B64Value(str[3]) \div 4,
                   (B64Value(str[3]) % 4) * 64 + B64Value(str[4]) >> \o rest

\* What generateSpeech can resolve to: Buffer.concat of the chunks the provider
\* streamed, which is the empty buffer when it streamed none.
AudioBuffers == { <<>>, <<73, 68>> }

----------------------------------------------------------------------------
(* The key-value store entries of the TTS router *)

Digits == << "0", "1", "2", "3", "4", "5", "6", "7", "8", "9" >>

\* `${index}` for a non-negative integer
RECURSIVE DecimalString(_)
DecimalString(n) ==
    IF n < 10 THEN << Digits[n + 1] >>
    ELSE DecimalString(n \div 10) \o << Digits[(n % 10) + 1] >>

\* `tts-audio:${session.youtubeUrl}:${session.targetLang}:${segment.index}`
CacheKey(youtubeUrl, targetLang, index) ==
    << "t", "t", "s", "-", "a", "u", "d", "i", "o", ":" >>
        \o youtubeUrl \o << ":" >> \o targetLang \o << ":" >> \o DecimalString(index)

\* redisClient.get(key): null (None) when the key is absent
RedisGet(store, key) == IF key \in DOMAIN store THEN Some(store[key]) ELSE None

\* redisClient.set(key, value, { EX: 86400 })
RedisSet(store, key, value) ==
    [k \in DOMAIN store \cup {key} |-> IF k = key THEN value ELSE store[k]]

\* `if (cached)`: null and '' are both falsy
CachedIsTruthy(cached) == cached # None /\ Truthy(cached[1])

----------------------------------------------------------------------------
(* TTS sessions: state *)

SessionIds == 1..MaxTotalSegments

YoutubeUrls == { <<"u">> }
TargetLangs == { <<"e", "s">> }

\* Transcripts fetchTranscript can return (it never returns an empty list): n
\* consecutive 4-second fragments, each a sentence, the last one possibly with
\* an empty text.
SessionTranscript(n, lastEmpty) ==
    [i \in 1..n |->
        [text |-> IF i = n /\ lastEmpty THEN <<>>
                  ELSE IF i % 2 = 1 THEN <<"a", ".">> ELSE <<"b", ".">>,
         offset |-> (i - 1) * 4000,
         duration |-> 4000]]

SessionTranscripts ==
    { SessionTranscript(n, e) : n \in 1..MaxTotalSegments, e \in BOOLEAN }

\* What translateText(...).translated.split(' ||| ') can be for a batch of n
\* segments: a non-empty list of delimiter-free strings, of any length.  The
\* model draws lists of 1..n+1 parts whose parts differ by position, with at
\* most one part empty.
TranslatedPart(j) == IF j % 2 = 1 THEN <<"x">> ELSE <<"y">>
SplitResults(n) ==
    UNION { { [j \in 1..m |-> IF j = e THEN <<>> ELSE TranslatedPart(j)] : e \in 0..m }
            : m \in 1..(n + 1) }

\* The lists among them that SpecTTS draws: one part per segment, or one less.
ShortSplitResults(n) ==
    { [j \in 1..m |-> TranslatedPart(j)] : m \in ({n - 1, n} \ {0}) }

\* Inputs of POST /session/:sessionId/segment
RequestIndices == 0..MaxTotalSegments
RequestTimes == { (i - 1) * 4000 : i \in 1..(MaxTotalSegments + 1) }

TotalSegments == LET RECURSIVE Sum(_)
                     Sum(S) == IF S = {} THEN 0
                               ELSE LET x == CHOOSE y \in S : TRUE
                                    IN  Len(sessionObjs[x].segments) + Sum(S \ {x})
                 IN  Sum(DOMAIN sessionObjs)

\* The merger before it is called.
MergeIdle ==
    /\ rawSegments = <<>>
    /\ targetDuration = DefaultTargetDuration
    /\ mergeResult = None
    /\ mergeClosedAt = <<>>

\* The store without a dubbing job, and no dubbing run in flight.
DubIdle ==
    /\ jobStore = None
    /\ dubCache = None
    /\ dubTasks = EmptyBag
    /\ pollRun = None

\* The state of the TTS router when no request has been served.
TTSIdle ==
    /\ sessionObjs = << >>
    /\ sessions = {}
    /\ translating = << >>
    /\ audioTasks = EmptyBag
    /\ redis = << >>
    /\ postReply = None

\* The page before the content script was started, the video at `volume` percent.
StoppedPage(volume) ==
    [ video |-> [ currentTime |-> 0, paused |-> TRUE, playbackRate |-> 1,
                  volume |-> volume, listeners |-> {} ],
      videoElement |-> FALSE,
      currentJob |-> None,
      currentChunkAudio |-> None,
      currentChunkIndex |-> -1,
      isActive |-> FALSE,
      checkInterval |-> FALSE,
      calls |-> EmptyBag,
      volumeAtStart |-> None ]

\* The page before the segment script was started, the video at `volume` percent.
StoppedSegmentPage(volume) ==
    [ video |-> [ currentTime |-> 0, paused |-> TRUE, volume |-> volume, listeners |-> {} ],
      session |-> FALSE,
      videoElement |-> FALSE,
      currentAudio |-> None,
      currentSegmentIndex |-> -1,
      isActive |-> FALSE,
      pollInterval |-> FALSE,
      playedSegments |-> {},
      preloadedAudio |-> {},
      preloadingSegments |-> {},
      calls |-> EmptyBag,
      serverReady |-> {},
      volumeAtStart |-> None ]

\* The pages when no dubbing was started on them.
PagesIdle ==
    /\ chunkPage = StoppedPage(100)
    /\ segmentPage = StoppedSegmentPage(100)

\* session.segments[index], undefined (None) outside the array
SegmentAt(session, index) ==
    IF index \in 0..(Len(session.segments) - 1)
    THEN Some(session.segments[index + 1])
    ELSE None

\* session.segments.find(s => currentTime >= s.startTime && currentTime < s.endTime)
FindByTime(session, currentTime) ==
    LET hits == { k \in 1..Len(session.segments) :
                    /\ currentTime >= session.segments[k].startTime
                    /\ currentTime < session.segments[k].endTime }
    IN  IF hits = {} THEN None
        ELSE Some(session.segments[CHOOSE k \in hits : \A j \in hits : k <= j])

\* The task generateSegmentAudio(session, segment) as it stands at its first
\* await: the cache key is computed and redisClient.get is issued.  Commands of
\* the one Redis connection are served in the order issued, so the reply is the
\* content of the store at that moment.
NewAudioTask(sid, session, index, store) ==
    [session |-> sid,
     index |-> index,
     pc |-> "cache",
     cached |-> RedisGet(store, CacheKey(session.youtubeUrl, session.targetLang, index))]

\* The test each trigger point makes before it starts generation for segment
\* index (given that the segment exists).
MayStartIgnoringInFlight(session, index) ==
    /\ Truthy(session.segments[index + 1].translatedText)
    /\ ~session.segments[index + 1].audioReady

MayStartWhenReady(session, index) ==
    /\ Truthy(session.segments[index + 1].translatedText)
    /\ index \notin session.generatingAudio

MayStartWithoutText(session, index) ==
    /\ ~session.segments[index + 1].audioReady
    /\ index \notin session.generatingAudio

MayStart(session, index) ==
    /\ Truthy(session.segments[index + 1].translatedText)
    /\ ~session.segments[index + 1].audioReady
    /\ index \notin session.generatingAudio

\* After `for each index in indices: if MayStart then generatingAudio.add(index);
\* generateSegmentAudio(...)`: the indices started.
Started(session, indices) ==
    { i \in indices : i \in 0..(Len(session.segments) - 1) /\ MayStart(session, i) }

TasksFor(sid, session, indices, store) ==
    SetToBag({ NewAudioTask(sid, session, i, store) : i \in indices })

----------------------------------------------------------------------------
(* TTS sessions: operations *)

batchSize == 10
PreGenerateCount == 3
CascadeWidth == 3

Min(a, b) == IF a <= b THEN a ELSE b

\* translations[idx] || translations[translations.length - 1]: a segment
\* without a part of its own takes the last part
PickTranslationOrLast(translations, idx, originalText) ==
    IF idx + 1 <= Len(translations) /\ Truthy(translations[idx + 1])
    THEN translations[idx + 1]
    ELSE translations[Len(translations)]

\* translations[idx] || seg.originalText, idx counted from 0
PickTranslation(translations, idx, originalText) ==
    IF idx + 1 <= Len(translations) /\ Truthy(translations[idx + 1])
    THEN translations[idx + 1]
    ELSE originalText

\* The segments after the batch starting at i (0-based) got its translations.
ApplyTranslations(segments, i, translations) ==
    [k \in 1..Len(segments) |->
        IF k - 1 >= i /\ k - 1 < i + batchSize
        THEN [segments[k] EXCEPT
                !.translatedText =
                    PickTranslation(translations, k - 1 - i, segments[k].originalText)]
        ELSE segments[k]]

\* The catch branch: every segment of the batch keeps its original text.
ApplyFallbackNothing(segments, i) == segments
ApplyFallback(segments, i) ==
    [k \in 1..Len(segments) |->
        IF k - 1 >= i /\ k - 1 < i + batchSize
        THEN [segments[k] EXCEPT !.translatedText = segments[k].originalText]
        ELSE segments[k]]

\* The session object after `for each index in indices: if (...) { add; generate }`.
WithStarted(session, indices) ==
    [session EXCEPT !.generatingAudio = @ \cup Started(session, indices)]

\* POST /session with a transcript that could be fetched.  Session ids are
\* unique (time stamp and random suffix): the model numbers them.
StartSession(youtubeUrl, targetLang, transcript) ==
    LET sid == Cardinality(DOMAIN sessionObjs) + 1
        segments == mergeIntoSentences(transcript, SessionTargetDuration)
        session == [youtubeUrl |-> youtubeUrl, targetLang |-> targetLang,
                    segments |-> segments, generatingAudio |-> {}]
    IN  /\ sessionObjs' = [x \in DOMAIN sessionObjs \cup {sid} |->
                              IF x = sid THEN session ELSE sessionObjs[x]]
        /\ sessions' = sessions \cup {sid}
        \* translateAllSegments runs up to its first await
        /\ translating' = [x \in DOMAIN translating \cup {sid} |->
                              IF x = sid THEN [pc |-> "running", i |-> 0]
                              ELSE translating[x]]
        /\ postReply' = Some([code |-> 200, sessionId |-> sid,
                               totalSegments |-> Len(segments),
                               duration |-> IF Len(segments) > 0
                                            THEN segments[Len(segments)].endTime
                                            ELSE 0])
        /\ UNCHANGED <<audioTasks, redis>>
        /\ UNCHANGED <<mergeVars, dubVars, pageVars>>

\* SpecTTS: sessions are created while the bound on segments allows.
CreateSession(youtubeUrl, targetLang, transcript) ==
    /\ TotalSegments + Len(transcript) <= MaxTotalSegments
    /\ StartSession(youtubeUrl, targetLang, transcript)

\* SpecTranslate: one session with more segments than one batch holds.
CreateLongSession(youtubeUrl, targetLang, transcript) ==
    /\ DOMAIN sessionObjs = {}
    /\ StartSession(youtubeUrl, targetLang, transcript)

\* translateAllSegments after the await of one batch: `segments` is what the
\* try/catch left; the loop goes on to the next batch or returns, and on
\* return the .then callback of POST /session pre-generates the first segments.
AfterBatch(sid, segments) ==
    LET i == translating[sid].i
        next == i + batchSize
        session == [sessionObjs[sid] EXCEPT !.segments = segments]
        first == 0..(Min(PreGenerateCount, Len(segments)) - 1)
    IN  IF next < Len(segments)
        THEN /\ translating' = [translating EXCEPT ![sid].i = next]
             /\ sessionObjs' = [sessionObjs EXCEPT ![sid] = session]
             /\ UNCHANGED audioTasks
        ELSE /\ translating' = [translating EXCEPT ![sid] = [pc |-> "done", i |-> next]]
             /\ sessionObjs' = [sessionObjs EXCEPT ![sid] = WithStarted(session, first)]
             /\ audioTasks' = audioTasks (+)
                                TasksFor(sid, session, Started(session, first), redis)

TranslateBatchReturns(sid, translations) ==
    /\ sid \in DOMAIN translating
    /\ translating[sid].pc = "running"
    /\ AfterBatch(sid, ApplyTranslations(sessionObjs[sid].segments,
                                         translating[sid].i, translations))
    /\ UNCHANGED <<postReply, sessions, redis>>
    /\ UNCHANGED <<mergeVars, dubVars, pageVars>>

TranslateBatchThrows(sid) ==
    /\ sid \in DOMAIN translating
    /\ translating[sid].pc = "running"
    /\ AfterBatch(sid, ApplyFallback(sessionObjs[sid].segments, translating[sid].i))
    /\ UNCHANGED <<postReply, sessions, redis>>
    /\ UNCHANGED <<mergeVars, dubVars, pageVars>>

\* The reply of POST /session/:sessionId/segment, with segmentIndex (byIndex)
\* or currentTime; `starts` says whether the handler goes on to start generation.
SegmentReply(sid, byIndex, value) ==
    IF sid \notin sessions
    THEN [code |-> 404, status |-> "Session not found", index |-> -1, starts |-> FALSE]
    ELSE
        LET session == sessionObjs[sid]
            found == IF byIndex THEN SegmentAt(session, value)
                     ELSE FindByTime(session, value)
        IN  IF found = None
            THEN [code |-> 200, status |-> "no_segment", index |-> -1, starts |-> FALSE]
            ELSE
             LET segment == found[1]
             IN  IF segment.audioReady /\ segment.audioBuffer # None
                 THEN [code |-> 200, status |-> "ready", index |-> segment.index,
                       starts |-> FALSE]
                 ELSE IF ~Truthy(segment.translatedText)
                 THEN [code |-> 200, status |-> "translating", index |-> segment.index,
                       starts |-> FALSE]
                 ELSE IF segment.index \in session.generatingAudio
                 THEN [code |-> 200, status |-> "generating_audio",
                       index |-> segment.index, starts |-> FALSE]
                 ELSE [code |-> 200, status |-> "generating_audio",
                       index |-> segment.index, starts |-> TRUE]

\* The session object when the handler of POST /session/:sessionId/segment
\* has returned (sid is a session that can be looked up).
SessionAfterRequest(sid, byIndex, value) ==
    LET reply == SegmentReply(sid, byIndex, value)
    IN  IF reply.starts
        THEN [sessionObjs[sid] EXCEPT !.generatingAudio = @ \cup {reply.index}]
        ELSE sessionObjs[sid]

\* POST /session/:sessionId/segment
RequestSegment(sid, byIndex, value) ==
    LET reply == SegmentReply(sid, byIndex, value)
    IN  /\ IF reply.starts
           THEN /\ sessionObjs' = [sessionObjs EXCEPT
                        ![sid] = SessionAfterRequest(sid, byIndex, value)]
                /\ audioTasks' = audioTasks (+)
                        TasksFor(sid, sessionObjs[sid], {reply.index}, redis)
           ELSE UNCHANGED <<sessionObjs, audioTasks>>
        /\ UNCHANGED <<postReply, sessions, translating, redis>>
        /\ UNCHANGED <<mergeVars, dubVars, pageVars>>

\* segment.audioBuffer = buffer; segment.audioReady = true; without the
\* delete from generatingAudio
MarkReadyKeepingInFlight(session, index, buffer) ==
    [session EXCEPT
        !.segments[index + 1].audioBuffer = Some(buffer),
        !.segments[index + 1].audioReady = TRUE]

\* segment.audioBuffer = buffer; segment.audioReady = true;
\* session.generatingAudio.delete(segment.index)
MarkReady(session, index, buffer) ==
    [session EXCEPT
        !.segments[index + 1].audioBuffer = Some(buffer),
        !.segments[index + 1].audioReady = TRUE,
        !.generatingAudio = @ \ {index}]

\* The session objects after the task of session sid made its segment ready:
\* the task holds a reference to its own session object and writes only there.
ReadyInEverySessionOfTheVideo(objs, sid, index, buffer) ==
    [x \in DOMAIN objs |->
        IF /\ objs[x].youtubeUrl = objs[sid].youtubeUrl
           /\ objs[x].targetLang = objs[sid].targetLang
           /\ index < Len(objs[x].segments)
        THEN MarkReady(objs[x], index, buffer)
        ELSE objs[x]]

ReadyIn(objs, sid, index, buffer) ==
    [objs EXCEPT ![sid] = MarkReady(@, index, buffer)]

\* generateSegmentAudio after `await redisClient.get(cacheKey)`.
CacheReplied(task) ==
    /\ BagIn(task, audioTasks)
    /\ task.pc = "cache"
    /\ IF CachedIsTruthy(task.cached)
       THEN /\ sessionObjs' = ReadyIn(sessionObjs, task.session, task.index,
                                      FromBase64(task.cached[1]))
            /\ audioTasks' = audioTasks (-) SetToBag({task})
       ELSE \* generateSpeech is called
            /\ audioTasks' = (audioTasks (-) SetToBag({task}))
                                (+) SetToBag({[task EXCEPT !.pc = "speech"]})
            /\ UNCHANGED sessionObjs
    /\ UNCHANGED <<postReply, sessions, translating, redis>>
    /\ UNCHANGED <<mergeVars, dubVars, pageVars>>

\* generateSegmentAudio after `await generateSpeech(...)` resolved with audioBuffer:
\* the segment is made ready and redisClient.set is issued.
SpeechResolved(task, audioBuffer) ==
    /\ BagIn(task, audioTasks)
    /\ task.pc = "speech"
    /\ LET session == sessionObjs[task.session]
       IN  /\ sessionObjs' = ReadyIn(sessionObjs, task.session, task.index, audioBuffer)
           /\ redis' = RedisSet(redis,
                            CacheKey(session.youtubeUrl, session.targetLang, task.index),
                            ToBase64(audioBuffer))
    /\ audioTasks' = (audioTasks (-) SetToBag({task}))
                        (+) SetToBag({[task EXCEPT !.pc = "store"]})
    /\ UNCHANGED <<postReply, sessions, translating>>
    /\ UNCHANGED <<mergeVars, dubVars, pageVars>>

\* generateSegmentAudio when generateSpeech rejects: the catch block.
SpeechRejected(task) ==
    /\ BagIn(task, audioTasks)
    /\ task.pc = "speech"
    /\ sessionObjs' = [sessionObjs EXCEPT
            ![task.session].generatingAudio = @ \ {task.index}]
    /\ audioTasks' = audioTasks (-) SetToBag({task})
    /\ UNCHANGED <<postReply, sessions, translating, redis>>
    /\ UNCHANGED <<mergeVars, dubVars, pageVars>>

\* generateSegmentAudio after `await redisClient.set(...)`: the prefetch cascade.
StoreReplied(task) ==
    /\ BagIn(task, audioTasks)
    /\ task.pc = "store"
    /\ LET session == sessionObjs[task.session]
           nextOnes == { task.index + i : i \in 1..CascadeWidth }
       IN  /\ sessionObjs' = [sessionObjs EXCEPT ![task.session] =
                                WithStarted(session, nextOnes)]
           /\ audioTasks' = (audioTasks (-) SetToBag({task}))
                (+) TasksFor(task.session, session, Started(session, nextOnes), redis)
    /\ UNCHANGED <<postReply, sessions, translating, redis>>
    /\ UNCHANGED <<mergeVars, dubVars, pageVars>>

\* DELETE /session/:sessionId that also drops the session's tasks
DeleteSessionAndTasks(sid) ==
    /\ sessions' = sessions \ {sid}
    /\ audioTasks' = [t \in { u \in DOMAIN audioTasks : u.session # sid } |-> audioTasks[t]]
    /\ UNCHANGED <<postReply, sessionObjs, translating, redis>>
    /\ UNCHANGED <<mergeVars, dubVars, pageVars>>

\* DELETE /session/:sessionId
DeleteSession(sid) ==
    /\ sessions' = sessions \ {sid}
    /\ UNCHANGED <<postReply, sessionObjs, translating, audioTasks, redis>>
    /\ UNCHANGED <<mergeVars, dubVars, pageVars>>

\* The reply of GET /session/:sessionId/audio/:segmentIndex
AudioReply(sid, segmentIndex) ==
    IF sid \notin sessions
    THEN [code |-> 404, error |-> "Session not found", body |-> None]
    ELSE LET found == SegmentAt(sessionObjs[sid], segmentIndex)
         IN  IF found = None \/ found[1].audioBuffer = None
             THEN [code |-> 404, error |-> "Audio not ready", body |-> None]
             ELSE [code |-> 200, error |-> "", body |-> found[1].audioBuffer]

\* The reply of GET /session/:sessionId
StatusReply(sid) ==
    IF sid \notin sessions
    THEN [code |-> 404, error |-> "Session not found",
          totalSegments |-> 0, translatedSegments |-> 0, audioReadySegments |-> 0]
    ELSE LET segments == sessionObjs[sid].segments
         IN  [code |-> 200, error |-> "",
              totalSegments |-> Len(segments),
              translatedSegments |->
                  Cardinality({ i \in DOMAIN segments : Truthy(segments[i].translatedText) }),
              audioReadySegments |->
                  Cardinality({ i \in DOMAIN segments : segments[i].audioReady }) ]

\* GET /session/:sessionId/audio/:segmentIndex
GetAudio(sid, segmentIndex) ==
    /\ AudioReply(sid, segmentIndex).code \in { 200, 404 }
    /\ UNCHANGED ttsVars
    /\ UNCHANGED <<mergeVars, dubVars, pageVars>>

\* GET /session/:sessionId
GetStatus(sid) ==
    /\ StatusReply(sid).code \in { 200, 404 }
    /\ UNCHANGED ttsVars
    /\ UNCHANGED <<mergeVars, dubVars, pageVars>>

TaskStates ==
    { t \in DOMAIN audioTasks : audioTasks[t] > 0 }

InitTTS ==
    /\ TTSIdle
    /\ MergeIdle
    /\ DubIdle
    /\ PagesIdle

\* Every step of the TTS router but the creation of a session.
TTSSteps ==
    \/ \E sid \in DOMAIN translating :
        \E tr \in ShortSplitResults(Min(batchSize,
                        Len(sessionObjs[sid].segments) - translating[sid].i)) :
            TranslateBatchReturns(sid, tr)
    \/ \E sid \in DOMAIN translating : TranslateBatchThrows(sid)
    \/ \E sid \in SessionIds, i \in RequestIndices : RequestSegment(sid, TRUE, i)
    \/ \E sid \in SessionIds, t \in RequestTimes : RequestSegment(sid, FALSE, t)
    \/ \E task \in TaskStates : CacheReplied(task)
    \/ \E task \in TaskStates, a \in AudioBuffers : SpeechResolved(task, a)
    \/ \E task \in TaskStates : SpeechRejected(task)
    \/ \E task \in TaskStates : StoreReplied(task)
    \/ \E sid \in SessionIds : DeleteSession(sid)
    \/ \E sid \in SessionIds, i \in RequestIndices : GetAudio(sid, i)
    \/ \E sid \in SessionIds : GetStatus(sid)

NextTTS ==
    \/ \E u \in YoutubeUrls, l \in TargetLangs, t \in SessionTranscripts :
            CreateSession(u, l, t)
    \/ TTSSteps

SpecTTS == InitTTS /\ [][NextTTS]_vars

----------------------------------------------------------------------------
(* POST /session from the request body (SpecCreate) *)

\* The three alternatives of the pattern of extractVideoId, up to the group
WatchLiteral ==
    << "y", "o", "u", "t", "u", "b", "e", ".", "c", "o", "m", "/",
       "w", "a", "t", "c", "h", "?", "v", "=" >>
ShortLiteral == << "y", "o", "u", "t", "u", ".", "b", "e", "/" >>
EmbedLiteral ==
    << "y", "o", "u", "t", "u", "b", "e", ".", "c", "o", "m", "/",
       "e", "m", "b", "e", "d", "/" >>

\* [^&\n?#]
IdChar(c) == c \notin {"&", "\n", "?", "#"}

\* The positions at which the group can start: one of the literals ends just
\* before, and one character of the group follows.
GroupStarts(url) ==
    { i + Len(lit) : i \in 1..Len(url), lit \in {WatchLiteral, ShortLiteral, EmbedLiteral} } \cap
    { k \in 1..Len(url) :
        /\ IdChar(url[k])
        /\ \E lit \in {WatchLiteral, ShortLiteral, EmbedLiteral} :
            /\ k - Len(lit) >= 1
            /\ SubSeq(url, k - Len(lit), k - 1) = lit }

\* extractVideoId: the group of the leftmost match, taken greedily, or null
extractVideoId(url) ==
    IF GroupStarts(url) = {} THEN None
    ELSE LET from == CHOOSE k \in GroupStarts(url) : \A j \in GroupStarts(url) : k <= j
             to == CHOOSE k \in from..Len(url) :
                        /\ \A j \in from..k : IdChar(url[j])
                        /\ k = Len(url) \/ ~IdChar(url[k + 1])
         IN  Some(SubSeq(url, from, to))

\* The outcome of the captions script: execSync or JSON.parse throws, or the
\* parsed result
CaptionOutcomes ==
    { [threw |-> TRUE, success |-> FALSE, segments |-> << >>] } \cup
    { [threw |-> FALSE, success |-> ok, segments |-> t] :
        ok \in BOOLEAN,
        t \in { << >> } \cup { SessionTranscript(n, FALSE) : n \in 1..MaxTotalSegments } }

\* The segments of the speech-to-text result: n pieces of 4 seconds, start and
\* end in seconds
SttSegments(n) ==
    [i \in 1..n |-> [text |-> IF i % 2 = 1 THEN <<"a", ".">> ELSE <<"b", ".">>,
                     start |-> (i - 1) * 4, end |-> i * 4]]

\* The outcome of transcribeYouTubeVideo: it throws, or resolves to segments
SttOutcomes ==
    { [threw |-> TRUE, segments |-> << >>] } \cup
    { [threw |-> FALSE, segments |-> SttSegments(n)] : n \in 0..MaxTotalSegments }

\* fetchTranscript that returns an empty list when neither source has segments
fetchTranscriptOrEmpty(videoUrl, captions, stt) ==
    IF extractVideoId(videoUrl) = None
    THEN [threw |-> TRUE, segments |-> << >>, sttCalled |-> FALSE]
    ELSE IF ~captions.threw /\ captions.success /\ Len(captions.segments) > 0
    THEN [threw |-> FALSE, segments |-> captions.segments, sttCalled |-> FALSE]
    ELSE [threw |-> FALSE,
          segments |-> [i \in 1..Len(stt.segments) |->
                           [text |-> stt.segments[i].text,
                            offset |-> stt.segments[i].start * 1000,
                            duration |-> (stt.segments[i].end - stt.segments[i].start) * 1000]],
          sttCalled |-> TRUE]

\* fetchTranscript(videoUrl) for given outcomes of the two sources: whether it
\* throws, what it returns, and whether transcribeYouTubeVideo was called.
fetchTranscript(videoUrl, captions, stt) ==
    IF extractVideoId(videoUrl) = None
    THEN [threw |-> TRUE, segments |-> << >>, sttCalled |-> FALSE]
    ELSE IF ~captions.threw /\ captions.success /\ Len(captions.segments) > 0
    THEN [threw |-> FALSE, segments |-> captions.segments, sttCalled |-> FALSE]
    ELSE IF stt.threw \/ Len(stt.segments) = 0
    THEN [threw |-> TRUE, segments |-> << >>, sttCalled |-> TRUE]
    ELSE [threw |-> FALSE,
          segments |-> [i \in 1..Len(stt.segments) |->
                           [text |-> stt.segments[i].text,
                            offset |-> stt.segments[i].start * 1000,
                            duration |-> (stt.segments[i].end - stt.segments[i].start) * 1000]],
          sttCalled |-> TRUE]

\* The response of POST /session that creates nothing
BadRequest(error) == Some([code |-> 400, error |-> error])

\* POST /session
PostSession(youtubeUrl, targetLang, captions, stt) ==
    IF ~Truthy(youtubeUrl) \/ ~Truthy(targetLang)
    THEN /\ postReply' = BadRequest("Missing youtubeUrl or targetLang")
         /\ UNCHANGED <<sessionObjs, sessions, translating, audioTasks, redis>>
         /\ UNCHANGED <<mergeVars, dubVars, pageVars>>
    ELSE LET rawTranscript == fetchTranscript(youtubeUrl, captions, stt)
         IN  IF rawTranscript.threw
             THEN /\ postReply' = BadRequest("Failed to fetch transcript")
                  /\ UNCHANGED <<sessionObjs, sessions, translating, audioTasks, redis>>
                  /\ UNCHANGED <<mergeVars, dubVars, pageVars>>
             ELSE CreateSession(youtubeUrl, targetLang, rawTranscript.segments)

\* The request bodies SpecCreate draws: no URL, a URL that is not a video's,
\* two URLs of the same video; no language, a language code, and a language
\* string with a colon.
SameVideoUrl == ShortLiteral \o << "a", "?", "t" >>
BodyUrls == { << >>, << "a" >>, SameVideoUrl, SameVideoUrl \o << ":", "e" >> }
BodyLangs == { << >>, << "s" >>, << "e", ":", "s" >> }

NextCreate ==
    \/ \E u \in BodyUrls, l \in BodyLangs, c \in CaptionOutcomes, t \in SttOutcomes :
            PostSession(u, l, c, t)
    \/ \E sid \in DOMAIN translating :
        \E tr \in ShortSplitResults(Min(batchSize,
                        Len(sessionObjs[sid].segments) - translating[sid].i)) :
            TranslateBatchReturns(sid, tr)
    \/ \E task \in TaskStates : CacheReplied(task)
    \/ \E task \in TaskStates, a \in AudioBuffers : SpeechResolved(task, a)
    \/ \E task \in TaskStates : StoreReplied(task)

SpecCreate == InitTTS /\ [][NextCreate]_vars

\* SpecTranslate: translateAllSegments over more than one batch.
LongTranscripts ==
    { SessionTranscript(n, e) : n \in (batchSize + 1)..MaxLongSegments, e \in BOOLEAN }

NextTranslate ==
    \/ \E u \in YoutubeUrls, l \in TargetLangs, t \in LongTranscripts :
            CreateLongSession(u, l, t)
    \/ \E sid \in DOMAIN translating :
        \E tr \in SplitResults(Min(batchSize,
                        Len(sessionObjs[sid].segments) - translating[sid].i)) :
            TranslateBatchReturns(sid, tr)
    \/ \E sid \in DOMAIN translating : TranslateBatchThrows(sid)

SpecTranslate == InitTTS /\ [][NextTranslate]_vars

\* SpecAhead: one session of up to MaxAheadSegments segments, each translated
\* by a part of its own, requested by playback position.
AheadTranscripts ==
    { SessionTranscript(n, FALSE) : n \in 1..MaxAheadSegments }

AheadTimes == { (i - 1) * 4000 : i \in 1..(MaxAheadSegments + 1) }

NextAhead ==
    \/ \E u \in YoutubeUrls, l \in TargetLangs, t \in AheadTranscripts :
            CreateLongSession(u, l, t)
    \/ \E sid \in DOMAIN translating :
            TranslateBatchReturns(sid,
                [ j \in 1..Len(sessionObjs[sid].segments) |-> TranslatedPart(j) ])
    \/ \E sid \in DOMAIN sessionObjs, t \in AheadTimes : RequestSegment(sid, FALSE, t)
    \/ \E task \in TaskStates : CacheReplied(task)
    \/ \E task \in TaskStates : SpeechResolved(task, <<73, 68>>)
    \/ \E task \in TaskStates : SpeechRejected(task)
    \/ \E task \in TaskStates : StoreReplied(task)

SpecAhead == InitTTS /\ [][NextAhead]_vars

\* SpecWarm: SpecAhead on a server whose store still holds the audio of the
\* first segment of the video, cached by an earlier session within its 24
\* hours (the sessions Map is empty after a restart, the store is not).
WarmStore ==
    LET u == CHOOSE x \in YoutubeUrls : TRUE
        l == CHOOSE x \in TargetLangs : TRUE
    IN  RedisSet(<< >>, CacheKey(u, l, 0), ToBase64(<<73, 68>>))

InitWarm ==
    /\ sessionObjs = << >>
    /\ sessions = {}
    /\ translating = << >>
    /\ audioTasks = EmptyBag
    /\ redis = WarmStore
    /\ postReply = None
    /\ MergeIdle
    /\ DubIdle
    /\ PagesIdle

SpecWarm == InitWarm /\ [][NextAhead]_vars

----------------------------------------------------------------------------
(* Claims about the TTS session scheduler (SpecTTS, SpecTranslate) *)

\* The unsettled generateSegmentAudio invocations for segment index of session sid.
TasksOf(sid, index) ==
    { t \in TaskStates : t.session = sid /\ t.index = index }

SegmentIndices(sid) == 0..(Len(sessionObjs[sid].segments) - 1)

\* C1: at most one synthesis task is in flight for a (session, segment index),
\* whatever the interleaving of requests, pre-generation and cascade; a request
\* for an index that is in flight starts nothing.
C1_SingleFlight ==
    \A sid \in DOMAIN sessionObjs : \A index \in SegmentIndices(sid) :
        /\ Cardinality(TasksOf(sid, index)) <= 1
        /\ \A t \in TasksOf(sid, index) : audioTasks[t] = 1
        /\ (\E t \in TasksOf(sid, index) : t.pc \in {"cache", "speech"})
                => /\ index \in sessionObjs[sid].generatingAudio
                   /\ ~SegmentReply(sid, TRUE, index).starts

\* C1 witness: generateSpeech is running for a segment of a session that can
\* be looked up, and a request for that segment is answered generating_audio
\* without starting a second task.
C1_Witness ==
    \E sid \in sessions : \E index \in SegmentIndices(sid) :
        /\ \E t \in TasksOf(sid, index) : t.pc = "speech"
        /\ SegmentReply(sid, TRUE, index).status = "generating_audio"
        /\ ~SegmentReply(sid, TRUE, index).starts

\* C4: once the translation run of a session has finished, no segment of the
\* session is reported as translating.
C4_NoTranslatingAfterRun ==
    \A sid \in sessions :
        translating[sid].pc = "done" =>
            \A index \in SegmentIndices(sid) :
                SegmentReply(sid, TRUE, index).status # "translating"

\* C5: when a cache entry existed for the key of a segment at the time its
\* production ran (the reply to redisClient.get is not null), the segment
\* becomes ready from the cached bytes and generateSpeech is not called for it.
C5_CacheShortCircuit ==
    [][ \A t \in TaskStates :
            (t.pc = "cache" /\ t.cached # None /\ CacheReplied(t)) =>
                /\ sessionObjs'[t.session].segments[t.index + 1].audioReady
                /\ sessionObjs'[t.session].segments[t.index + 1].audioBuffer
                        = Some(FromBase64(t.cached[1]))
                /\ \A u \in DOMAIN audioTasks' :
                        (u.session = t.session /\ u.index = t.index /\ u.pc = "speech")
                            => audioTasks'[u] = 0
      ]_vars

\* The segments of the batch that starts at i (0-based), as positions 1..Len.
BatchPositions(segments, i) ==
    { k \in 1..Len(segments) : k - 1 >= i /\ k - 1 < i + batchSize }

\* C9: when the translation call of a batch throws, every segment of that batch
\* gets its original text, the segments of the other batches are left as they
\* are, and the run continues with the next batch; when the call of a batch
\* returns, its segments get their own parts and the other batches (a batch
\* that fell back among them) are left as they are.
C9_BatchFallback ==
    [][ \A sid \in DOMAIN translating :
          LET i == translating[sid].i
              before == sessionObjs[sid].segments
              after == sessionObjs'[sid].segments
              batch == BatchPositions(before, i)
              others == (1..Len(before)) \ batch
          IN  /\ TranslateBatchThrows(sid) =>
                    /\ \A k \in batch : after[k].translatedText = before[k].originalText
                    /\ \A k \in others : after[k] = before[k]
                    /\ i + batchSize < Len(before) =>
                            translating'[sid] = [pc |-> "running", i |-> i + batchSize]
              /\ \A tr \in SplitResults(batchSize) :
                    TranslateBatchReturns(sid, tr) =>
                        /\ \A k \in batch :
                              after[k].translatedText =
                                IF k - i <= Len(tr) /\ tr[k - i] # <<>>
                                THEN tr[k - i] ELSE before[k].originalText
                        /\ \A k \in others : after[k] = before[k]
      ]_vars

\* C9 witness: the run of an 11-segment session has finished; its first batch
\* fell back to the original texts and the segment of the second batch has its
\* own translation.
C9_Witness ==
    \E sid \in DOMAIN translating :
        LET segments == sessionObjs[sid].segments
        IN  /\ translating[sid].pc = "done"
            /\ Len(segments) = batchSize + 1
            /\ \A k \in 1..batchSize :
                    /\ segments[k].originalText # <<>>
                    /\ segments[k].translatedText = segments[k].originalText
            /\ segments[batchSize + 1].translatedText = <<"x">>

\* The operations the claim names, on session sid.
OperationOn(sid) ==
    \/ \E i \in RequestIndices : RequestSegment(sid, TRUE, i)
    \/ \E t \in RequestTimes : RequestSegment(sid, FALSE, t)
    \/ DeleteSession(sid)
    \/ \E task \in TaskStates :
        /\ task.session = sid
        /\ \/ CacheReplied(task)
           \/ \E a \in AudioBuffers : SpeechResolved(task, a)
           \/ SpeechRejected(task)
           \/ StoreReplied(task)

\* C10: an operation on one session (a segment request, the completion or
\* failure of a production task, deletion) leaves every other session as it is:
\* its segments with their readiness flags and audio buffers, its in-flight set
\* and whether it can be looked up.
C10_SessionIsolation ==
    [][ \A sid \in SessionIds :
            OperationOn(sid) =>
                \A other \in DOMAIN sessionObjs \ {sid} :
                    /\ sessionObjs'[other] = sessionObjs[other]
                    /\ (other \in sessions') = (other \in sessions)
      ]_vars

\* C10 witness: two sessions for the same video and language; the first has its
\* first segment ready (and the audio is in the cache), the second has the same
\* segment translated, not ready and in flight.
C10_Witness ==
    \E a \in DOMAIN sessionObjs, b \in DOMAIN sessionObjs :
        /\ a # b
        /\ sessionObjs[a].youtubeUrl = sessionObjs[b].youtubeUrl
        /\ sessionObjs[a].targetLang = sessionObjs[b].targetLang
        /\ sessionObjs[a].segments[1].audioReady
        /\ CacheKey(sessionObjs[a].youtubeUrl, sessionObjs[a].targetLang, 0)
                \in DOMAIN redis
        /\ ~sessionObjs[b].segments[1].audioReady
        /\ 0 \in sessionObjs[b].generatingAudio
        /\ 0 \notin sessionObjs[a].generatingAudio

\* C11: when the synthesis call of a segment fails, the segment leaves the
\* in-flight set and the failure is recorded on it: the status a request for
\* the segment reports from then on is a failed status, and the request
\* handler is what starts the next attempt, not the failed task.
C11_FailureMarksFailed ==
    [][\A task \in TaskStates :
        (SpeechRejected(task) /\ task.session \in sessions) =>
            /\ task.index \notin sessionObjs'[task.session].generatingAudio
            /\ audioTasks' = audioTasks (-) SetToBag({task})
            /\ SegmentReply(task.session, TRUE, task.index)'.status = "failed"
      ]_vars

\* The segments of the session are translated.
AllTranslated(session) ==
    \A i \in 1..Len(session.segments) : Truthy(session.segments[i].translatedText)

\* The segment is ready or in the in-flight set of the session object.
ReadyOrInFlight(session, index) ==
    \/ session.segments[index + 1].audioReady
    \/ index \in session.generatingAudio

\* C14: when the handler of a request for playback position t on a session
\* with translated segments has returned, the segment covering t and the
\* segment after it (the narrowest look-ahead, one index), if it exists, are
\* each ready or in the in-flight set.
C14_LookAhead ==
    \A sid \in sessions, t \in AheadTimes :
        LET found == FindByTime(sessionObjs[sid], t)
            after == SessionAfterRequest(sid, FALSE, t)
        IN  (AllTranslated(sessionObjs[sid]) /\ found # None) =>
                \A k \in 0..1 :
                    found[1].index + k < Len(after.segments) =>
                        ReadyOrInFlight(after, found[1].index + k)

\* The indices that a step enters into the in-flight set of session sid.
Entered(sid) ==
    sessionObjs'[sid].generatingAudio
        \ (IF sid \in DOMAIN sessionObjs THEN sessionObjs[sid].generatingAudio ELSE {})

\* The generateSegmentAudio invocations that a step starts.
StartedTasks ==
    { t \in DOMAIN audioTasks' :
        audioTasks'[t] > (IF t \in DOMAIN audioTasks THEN audioTasks[t] ELSE 0) }

Untranslated(session, index) ==
    ~Truthy(session.segments[index + 1].translatedText)

\* C15: synthesis is never started for a segment without translated text:
\* every step (request, pre-generation after translation, cascade) enters a
\* segment into the in-flight set, and starts generateSegmentAudio for it,
\* only if the segment has translated text; and a request for a segment
\* without translated text is answered 'translating' and starts nothing.
C15_NoSynthesisWithoutText ==
    /\ [][ /\ \A sid \in DOMAIN sessionObjs' : \A i \in Entered(sid) :
                 ~Untranslated(sessionObjs'[sid], i)
           /\ \A t \in StartedTasks :
                 ~Untranslated(sessionObjs'[t.session], t.index) ]_vars
    /\ [](\A sid \in sessions :
            \A i \in 0..(Len(sessionObjs[sid].segments) - 1) :
                Untranslated(sessionObjs[sid], i) =>
                    /\ SegmentReply(sid, TRUE, i).status = "translating"
                    /\ SessionAfterRequest(sid, TRUE, i) = sessionObjs[sid])

\* A segment became ready and its cascade has run, while the next segment has
\* no translated text although the translation run has finished: the cascade
\* left it out of the in-flight set.
C15_Witness ==
    \E sid \in sessions :
        /\ translating[sid].pc = "done"
        /\ Len(sessionObjs[sid].segments) = 2
        /\ sessionObjs[sid].segments[1].audioReady
        /\ TasksOf(sid, 0) = {}
        /\ Untranslated(sessionObjs[sid], 1)
        /\ sessionObjs[sid].generatingAudio = {}

\* The sessions that were deleted.
Deleted == DOMAIN sessionObjs \ sessions

\* Every request for a deleted session is answered 404 'Session not found'.
DeletedNotFound ==
    \A sid \in Deleted :
        /\ StatusReply(sid).code = 404
        /\ StatusReply(sid).error = "Session not found"
        /\ \A i \in RequestIndices :
            /\ SegmentReply(sid, TRUE, i).code = 404
            /\ SegmentReply(sid, TRUE, i).status = "Session not found"
            /\ AudioReply(sid, i).code = 404
            /\ AudioReply(sid, i).error = "Session not found"
        /\ \A t \in RequestTimes :
            /\ SegmentReply(sid, FALSE, t).code = 404
            /\ SegmentReply(sid, FALSE, t).status = "Session not found"

\* C21: after DELETE of a session every later segment, audio or status request
\* for its id is answered with session-not-found (a deleted id stays deleted);
\* the deletion cancels no generateSegmentAudio task, a task of a deleted
\* session can still resolve, and when it does its audio is written to the
\* cache.
C21_DeleteKeepsTasks ==
    /\ [] DeletedNotFound
    /\ [][ /\ Deleted \subseteq (DOMAIN sessionObjs' \ sessions')
           /\ (sessions' # sessions /\ sessions' \subseteq sessions)
                    => audioTasks' = audioTasks
           /\ \A task \in TaskStates : \A a \in AudioBuffers :
                (task.session \in Deleted /\ SpeechResolved(task, a)) =>
                    RedisGet(redis', CacheKey(sessionObjs[task.session].youtubeUrl,
                                              sessionObjs[task.session].targetLang,
                                              task.index))
                        = Some(ToBase64(a))
         ]_vars
    /\ [] (\A task \in TaskStates : \A a \in AudioBuffers :
                (task.session \in Deleted /\ task.pc = "speech")
                    => ENABLED SpeechResolved(task, a))

\* A deleted session has a synthesis in flight.
C21_Witness ==
    \E task \in TaskStates : task.session \in Deleted /\ task.pc = "speech"

----------------------------------------------------------------------------
(* The time-chunk dubbing job (services/elevenlabs.ts, lines 1-283) *)

\* Chunk duration in seconds
CHUNK_DURATION == 30

\* The videoDuration argument of createDubbingJob, in seconds; 0 stands for
\* an absent (or zero) duration, which `videoDuration || CHUNK_DURATION`
\* replaces by one chunk.
VideoDurations ==
    {0} \cup { CHUNK_DURATION * k - 15 : k \in 1..MaxChunks }
        \cup { CHUNK_DURATION * k : k \in 1..MaxChunks }

\* The chunk indices a client asks for; MaxChunks is past every job's end.
ChunkIndices == 0..MaxChunks

\* response.dubbingId of the remote dub-creation call
DubbingIds == { "dub1" }

\* The messages of the errors the runs catch.
DubRejectedErrors == { "dubbing request rejected" }
PollErrors == { "Chunk dubbing failed", "Chunk dubbing timed out" }

\* Math.ceil(duration / CHUNK_DURATION) for a whole number of seconds
CeilDiv(a, b) == (a + b - 1) \div b

NewChunk(i, duration) ==
    [ index     |-> i,
      startTime |-> i * CHUNK_DURATION,
      endTime   |-> Min((i + 1) * CHUNK_DURATION, duration),
      status    |-> "pending",
      dubbingId |-> None,
      audioUrl  |-> None,
      error     |-> None ]

\* The job object built by createDubbingJob (chunks[i + 1] is the chunk of index i).
NewJob(videoDuration) ==
    LET duration == IF videoDuration # 0 THEN videoDuration ELSE CHUNK_DURATION
        totalChunks == CeilDiv(duration, CHUNK_DURATION)
    IN  [ status        |-> "pending",
          chunks        |-> [ i \in 1..totalChunks |-> NewChunk(i - 1, duration) ],
          currentChunk  |-> 0,
          totalChunks   |-> totalChunks,
          videoDuration |-> duration,
          error         |-> None ]

\* job.chunks.find(c => c.status === 'pending'): the index of the first
\* pending chunk, None when there is none
FindPending(job) ==
    LET P == { i \in 1..Len(job.chunks) : job.chunks[i].status = "pending" }
    IN  IF P = {} THEN None
        ELSE Some((CHOOSE i \in P : \A j \in P : i <= j) - 1)

\* processNextChunk marks its chunk and the job as processing.
BeginNext(job, idx) ==
    [ job EXCEPT !.chunks[idx + 1].status = "processing",
                 !.status = "processing",
                 !.currentChunk = idx ]

\* processChunkPriority marks its chunk as processing.
BeginPriority(job, idx) ==
    [ job EXCEPT !.chunks[idx + 1].status = "processing",
                 !.currentChunk = idx ]

WithDubbingId(job, idx, id) ==
    [ job EXCEPT !.chunks[idx + 1].dubbingId = Some(id) ]

\* pollChunkCompletion on the answer 'dubbed'
Dubbed(job, idx) ==
    [ job EXCEPT !.chunks[idx + 1].status = "completed",
                 !.chunks[idx + 1].audioUrl = job.chunks[idx + 1].dubbingId ]

\* The catch block of processNextChunk
FailNext(job, idx, message) ==
    [ job EXCEPT !.chunks[idx + 1].status = "failed",
                 !.chunks[idx + 1].error = Some(message),
                 !.status = "failed",
                 !.error = Some(message) ]

\* The catch block of processChunkPriority
FailPriority(job, idx, message) ==
    [ job EXCEPT !.chunks[idx + 1].status = "failed",
                 !.chunks[idx + 1].error = Some(message) ]

(* A run in flight is a record                                             *)
(*   kind   : "next" for the processNextChunk chain started by             *)
(*            createDubbingJob, "priority" for a requestChunk call and its *)
(*            processChunkPriority;                                        *)
(*   job    : the run's own job object (the argument of createDubbingJob's *)
(*            chain, or the copy parsed from the store by requestChunk);   *)
(*   frames : the chunk indices of the nested processNextChunk calls, the  *)
(*            innermost last (one index for a priority run);               *)
(*   pc     : "get"    the store's reply to requestChunk's get is awaited, *)
(*            "set"    the reply to the set that follows marking the chunk *)
(*                     as processing is awaited,                           *)
(*            "dub"    the remote dub-creation call is in flight,          *)
(*            "poll"   pollChunkCompletion is polling,                     *)
(*            "next"   the chain awaits the set of pollChunkCompletion and *)
(*                     then calls processNextChunk again,                  *)
(*            "cache"  the chain found no pending chunk and awaits the set *)
(*                     of the completed job,                               *)
(*            "unwind" an error is travelling up the nested calls;         *)
(*   error  : the message of that error.                                   *)
DubRuns == BagToSet(dubTasks)

CurrentChunk(run) == run.frames[Len(run.frames)]

Without(run) == dubTasks (-) SetToBag({run})

Replaced(run, next) == Without(run) (+) SetToBag({next})

\* The error leaves the innermost call; the run ends when no call is left.
Thrown(run, job, message) ==
    LET outer == SubSeq(run.frames, 1, Len(run.frames) - 1)
    IN  IF outer = <<>>
        THEN Without(run)
        ELSE Replaced(run, [ run EXCEPT !.job = job, !.frames = outer,
                                        !.pc = "unwind", !.error = Some(message) ])

\* createDubbingJob: the job is stored, and after the store's reply
\* processNextChunk(job) runs up to its first await, which stores the job
\* again with chunk 0 processing.  The job id is not known to any client
\* before createDubbingJob returns, so the two sets are one step.
CreateDubbingJob(videoDuration) ==
    /\ jobStore = None
    /\ dubTasks = EmptyBag
    /\ LET job == BeginNext(NewJob(videoDuration), 0)
       IN  /\ jobStore' = Some(job)
           /\ dubTasks' = SetToBag({ [ kind |-> "next", job |-> job,
                                       frames |-> <<0>>, pc |-> "set",
                                       error |-> None ] })
    /\ UNCHANGED dubCache
    /\ UNCHANGED <<mergeVars, ttsVars, pageVars, pollRun>>

\* requestChunk up to its await: the get is issued.  Its reply is the entry
\* at this moment; requestChunk changes nothing unless the chunk of that
\* copy is pending.
RequestChunk(chunkIndex) ==
    /\ IF /\ jobStore # None
          /\ chunkIndex < Len(jobStore[1].chunks)
          /\ jobStore[1].chunks[chunkIndex + 1].status = "pending"
       THEN /\ BagCardinality(dubTasks) < MaxDubTasks
            /\ dubTasks' = dubTasks (+) SetToBag({ [ kind |-> "priority",
                                job |-> jobStore[1], frames |-> <<chunkIndex>>,
                                pc |-> "get", error |-> None ] })
       ELSE UNCHANGED dubTasks
    /\ UNCHANGED <<jobStore, dubCache>>
    /\ UNCHANGED <<mergeVars, ttsVars, pageVars, pollRun>>

\* requestChunk after the get replied: processChunkPriority(job, chunkIndex)
\* runs up to its first await.
ProcessChunkPriority(run) ==
    /\ run \in DubRuns
    /\ run.pc = "get"
    /\ run.job.chunks[CurrentChunk(run) + 1].status = "pending"
    /\ LET job == BeginPriority(run.job, CurrentChunk(run))
       IN  /\ jobStore' = Some(job)
           /\ dubTasks' = Replaced(run, [ run EXCEPT !.job = job, !.pc = "set" ])
    /\ UNCHANGED dubCache
    /\ UNCHANGED <<mergeVars, ttsVars, pageVars, pollRun>>

\* The set replied: the remote dub-creation call is issued.
CallDub(run) ==
    /\ run \in DubRuns
    /\ run.pc = "set"
    /\ dubTasks' = Replaced(run, [ run EXCEPT !.pc = "dub" ])
    /\ UNCHANGED <<jobStore, dubCache>>
    /\ UNCHANGED <<mergeVars, ttsVars, pageVars, pollRun>>

\* The dub-creation call resolved: the dubbingId is stored, and after the
\* store's reply pollChunkCompletion starts polling.
DubResolved(run, id) ==
    /\ run \in DubRuns
    /\ run.pc = "dub"
    /\ LET job == WithDubbingId(run.job, CurrentChunk(run), id)
       IN  /\ jobStore' = Some(job)
           /\ dubTasks' = Replaced(run, [ run EXCEPT !.job = job, !.pc = "poll" ])
    /\ UNCHANGED dubCache
    /\ UNCHANGED <<mergeVars, ttsVars, pageVars, pollRun>>

\* The catch block of the run's innermost call.
Caught(run, message) ==
    LET job == IF run.kind = "next"
               THEN FailNext(run.job, CurrentChunk(run), message)
               ELSE FailPriority(run.job, CurrentChunk(run), message)
    IN  /\ jobStore' = Some(job)
        /\ dubTasks' = IF run.kind = "next"
                       THEN Thrown(run, job, message)
                       ELSE Without(run)
        /\ UNCHANGED dubCache
        /\ UNCHANGED <<mergeVars, ttsVars, pageVars, pollRun>>

\* The dub-creation call rejected.
DubRejected(run, message) ==
    /\ run \in DubRuns
    /\ run.pc = "dub"
    /\ Caught(run, message)

\* pollChunkCompletion got the answer 'dubbed'.
PollDubbed(run) ==
    /\ run \in DubRuns
    /\ run.pc = "poll"
    /\ LET job == Dubbed(run.job, CurrentChunk(run))
       IN  /\ jobStore' = Some(job)
           /\ dubTasks' = IF run.kind = "next"
                          THEN Replaced(run, [ run EXCEPT !.job = job, !.pc = "next" ])
                          ELSE Without(run)
    /\ UNCHANGED dubCache
    /\ UNCHANGED <<mergeVars, ttsVars, pageVars, pollRun>>

\* pollChunkCompletion threw: the answer 'failed', or the attempts ran out.
PollThrew(run, message) ==
    /\ run \in DubRuns
    /\ run.pc = "poll"
    /\ Caught(run, message)

\* The chain calls processNextChunk(job) again, which runs up to its first await.
ProcessNextChunk(run) ==
    /\ run \in DubRuns
    /\ run.pc = "next"
    /\ LET pending == FindPending(run.job)
           job == IF pending = None
                  THEN [ run.job EXCEPT !.status = "completed" ]
                  ELSE BeginNext(run.job, pending[1])
       IN  /\ jobStore' = Some(job)
           /\ dubTasks' = Replaced(run,
                IF pending = None
                THEN [ run EXCEPT !.job = job, !.pc = "cache" ]
                ELSE [ run EXCEPT !.job = job, !.pc = "set",
                                  !.frames = Append(@, pending[1]) ])
    /\ UNCHANGED dubCache
    /\ UNCHANGED <<mergeVars, ttsVars, pageVars, pollRun>>

\* The completed job is stored under the cache key, and every nested call returns.
CacheCompleted(run) ==
    /\ run \in DubRuns
    /\ run.pc = "cache"
    /\ dubCache' = Some(run.job)
    /\ dubTasks' = Without(run)
    /\ UNCHANGED jobStore
    /\ UNCHANGED <<mergeVars, ttsVars, pageVars, pollRun>>

\* The error thrown by the inner call is caught by the call around it.
Unwind(run) ==
    /\ run \in DubRuns
    /\ run.pc = "unwind"
    /\ Caught(run, run.error[1])

\* The value requestChunk returns for the reply jobData of its get: null
\* (None) without a job or past the last chunk, else the chunk object, which
\* processChunkPriority has already marked as processing when it was pending.
RequestChunkResult(jobData, chunkIndex) ==
    IF jobData = None THEN None
    ELSE IF chunkIndex >= Len(jobData[1].chunks) THEN None
    ELSE LET chunk == jobData[1].chunks[chunkIndex + 1]
         IN  IF chunk.status = "pending"
             THEN Some(BeginPriority(jobData[1], chunkIndex).chunks[chunkIndex + 1])
             ELSE Some(chunk)

\* getChunkForTime for the reply jobData of its get (currentTime in whole seconds)
GetChunkForTimeResult(jobData, currentTime) ==
    IF jobData = None THEN None
    ELSE LET chunkIndex == currentTime \div CHUNK_DURATION
         IN  IF chunkIndex >= Len(jobData[1].chunks) THEN None
             ELSE Some(jobData[1].chunks[chunkIndex + 1])

\* getChunkForTime for a currentTime given in milliseconds (29.9 s is 29900)
GetChunkForTimeMs(jobData, currentTimeMs) ==
    IF jobData = None THEN None
    ELSE LET chunkIndex == currentTimeMs \div (CHUNK_DURATION * 1000)
         IN  IF chunkIndex >= Len(jobData[1].chunks) THEN None
             ELSE Some(jobData[1].chunks[chunkIndex + 1])

\* The response of GET /chunk/:jobId/:currentTime and POST /chunk/:jobId/:chunkIndex
\* to the value the service function returned.
ChunkResponse(chunk) ==
    IF chunk = None
    THEN [code |-> 404, error |-> Some("Chunk not found"), chunk |-> None]
    ELSE [code |-> 200, error |-> None, chunk |-> chunk]

\* Number(param) of a route parameter: a number, or NaN when the parameter is
\* not the text of a number
Num(n) == [nan |-> FALSE, value |-> n]
NaN == [nan |-> TRUE, value |-> 0]

\* What Number(req.params.chunkIndex) and Number(req.params.currentTime) can
\* be besides the indices and times of chunks: a negative number, NaN, and a
\* number past the last chunk.
NoChunkIndices(job) ==
    { Num(-1), NaN, Num(Len(job.chunks)), Num(Len(job.chunks) + 1) }
NoChunkTimes(job) ==
    { Num(-1), NaN, Num(Len(job.chunks) * CHUNK_DURATION),
      Num(Len(job.chunks) * CHUNK_DURATION + 1) }

\* `index >= length` in JavaScript: every comparison with NaN is false
NotBelow(index, length) == ~index.nan /\ index.value >= length

\* Math.floor(currentTime / CHUNK_DURATION)
FloorOfQuotient(currentTime) ==
    IF currentTime.nan THEN NaN ELSE Num(currentTime.value \div CHUNK_DURATION)

\* job.chunks[index]: undefined (None) unless index is the index of an element
ChunkOrUndefined(job, index) ==
    IF ~index.nan /\ index.value >= 0 /\ index.value < Len(job.chunks)
    THEN Some(job.chunks[index.value + 1])
    ELSE None

\* requestChunk for the reply jobData of its get and any number chunkIndex:
\* whether it throws (reading `status` of undefined) and what it returns
requestChunk(jobData, chunkIndex) ==
    IF jobData = None THEN [threw |-> FALSE, chunk |-> None]
    ELSE IF NotBelow(chunkIndex, Len(jobData[1].chunks))
    THEN [threw |-> FALSE, chunk |-> None]
    ELSE IF ChunkOrUndefined(jobData[1], chunkIndex) = None
    THEN [threw |-> TRUE, chunk |-> None]
    ELSE [threw |-> FALSE, chunk |-> RequestChunkResult(jobData, chunkIndex.value)]

\* getChunkForTime for the reply jobData of its get and any number currentTime
\* (in whole seconds, or NaN)
getChunkForTime(jobData, currentTime) ==
    IF jobData = None THEN [threw |-> FALSE, chunk |-> None]
    ELSE IF NotBelow(FloorOfQuotient(currentTime), Len(jobData[1].chunks))
    THEN [threw |-> FALSE, chunk |-> None]
    ELSE [threw |-> FALSE,
          chunk |-> ChunkOrUndefined(jobData[1], FloorOfQuotient(currentTime))]

\* The response of the two chunk routes to the outcome of the service function
ChunkRouteResponse(outcome) ==
    IF outcome.threw
    THEN [code |-> 500, error |-> Some("Failed to request chunk"), chunk |-> None]
    ELSE ChunkResponse(outcome.chunk)

\* POST /chunk/:jobId/:chunkIndex with a parameter that designates no chunk:
\* requestChunk returns or throws before it has started anything
RequestNoChunk(chunkIndex) ==
    /\ jobStore # None
    /\ chunkIndex \in NoChunkIndices(jobStore[1])
    /\ ChunkRouteResponse(requestChunk(jobStore, chunkIndex)).code \in { 404, 500 }
    /\ UNCHANGED dubVars
    /\ UNCHANGED <<mergeVars, ttsVars, pageVars>>

InitDub ==
    /\ DubIdle
    /\ MergeIdle
    /\ TTSIdle
    /\ PagesIdle

\* Every step of the dubbing service but the creation of the job.
DubSteps ==
    \/ \E i \in ChunkIndices : RequestChunk(i)
    \/ \E i \in {NaN} \cup { Num(n) : n \in -1..(MaxChunks + 1) } : RequestNoChunk(i)
    \/ \E run \in DubRuns : ProcessChunkPriority(run)
    \/ \E run \in DubRuns : CallDub(run)
    \/ \E run \in DubRuns, id \in DubbingIds : DubResolved(run, id)
    \/ \E run \in DubRuns, e \in DubRejectedErrors : DubRejected(run, e)
    \/ \E run \in DubRuns : PollDubbed(run)
    \/ \E run \in DubRuns, e \in PollErrors : PollThrew(run, e)
    \/ \E run \in DubRuns : ProcessNextChunk(run)
    \/ \E run \in DubRuns : CacheCompleted(run)
    \/ \E run \in DubRuns : Unwind(run)

NextDub ==
    \/ \E d \in VideoDurations : CreateDubbingJob(d)
    \/ DubSteps

SpecDub == InitDub /\ [][NextDub]_vars

----------------------------------------------------------------------------
(* The status reads of both routers (SpecReads) *)

\* The response of GET /status/:jobId to what getJobStatus returned
JobResponse(job) ==
    IF job = None
    THEN [code |-> 404, error |-> Some("Job not found"), job |-> None]
    ELSE [code |-> 200, error |-> None, job |-> job]

\* GET /status/:jobId: getJobStatus reads the entry and parses it
GetJobStatus ==
    /\ JobResponse(jobStore).code \in { 200, 404 }
    /\ UNCHANGED dubVars
    /\ UNCHANGED <<mergeVars, ttsVars, pageVars>>

\* GET /chunk/:jobId/:currentTime that also requests the chunk of that time
GetChunkForTimeAndRequest(currentTime) ==
    RequestChunk(currentTime \div CHUNK_DURATION)

\* GET /chunk/:jobId/:currentTime: getChunkForTime reads the entry and returns
\* the chunk of that time
GetChunkForTime(currentTime) ==
    /\ ChunkResponse(GetChunkForTimeResult(jobStore, currentTime)).code \in { 200, 404 }
    /\ UNCHANGED dubVars
    /\ UNCHANGED <<mergeVars, ttsVars, pageVars>>

\* The times GET /chunk is called with, in seconds
ReadTimes == { CHUNK_DURATION * k + 10 : k \in 0..MaxChunks }

\* Both routers at work: the TTS router on one session of one segment, the
\* dubbing service on a video of MaxChunks whole chunks.
NextReads ==
    \/ \E u \in YoutubeUrls, l \in TargetLangs :
            CreateLongSession(u, l, SessionTranscript(1, FALSE))
    \/ TTSSteps
    \/ CreateDubbingJob(CHUNK_DURATION * MaxChunks)
    \/ DubSteps
    \/ GetJobStatus
    \/ \E t \in ReadTimes : GetChunkForTime(t)

SpecReads == InitTTS /\ [][NextReads]_vars

----------------------------------------------------------------------------
(* The polling loops of the dubbing service (SpecPoll) *)

\* `maxAttempts` of pollChunkCompletion and of pollForCompletion
ChunkMaxAttempts == 60
VideoMaxAttempts == 120

PollKinds == {"chunk", "video"}
maxAttempts(kind) == IF kind = "chunk" THEN ChunkMaxAttempts ELSE VideoMaxAttempts

\* status.status and status.error of getDubbingProjectMetadata
ProviderStatuses == {"dubbing", "dubbed", "failed"}
ProviderErrors == { None, Some("quota exceeded") }
MetadataErrors == { "network error" }

\* new Error(`Chunk dubbing failed: ${status.error || 'Unknown error'}`).message
FailedMessage(kind, error) ==
    << IF kind = "chunk" THEN "Chunk dubbing failed: " ELSE "Dubbing failed: ",
       IF error = None THEN "Unknown error" ELSE error[1] >>

TimedOutMessage(kind) ==
    << IF kind = "chunk" THEN "Chunk dubbing timed out" ELSE "Dubbing timed out" >>

\* The caller's catch block: the chunk (the job, for a whole video) is marked
\* failed with the message of the error.
CaughtBy(run, message) ==
    [run EXCEPT !.pc = "done", !.status = "failed", !.error = Some(message)]

\* The caller reaches its polling call: the loop tests `attempt < maxAttempts`
\* and awaits the first getDubbingProjectMetadata.
StartPolling(kind) ==
    /\ pollRun = None
    /\ pollRun' = Some([kind |-> kind, pc |-> "metadata", attempt |-> 0,
                        status |-> "processing", error |-> None])
    /\ UNCHANGED <<jobStore, dubCache, dubTasks>>
    /\ UNCHANGED <<mergeVars, ttsVars, pageVars>>

\* getDubbingProjectMetadata resolves
MetadataResolved(status, error) ==
    /\ pollRun # None
    /\ pollRun[1].pc = "metadata"
    /\ pollRun' = Some(IF status = "dubbed"
                       THEN [pollRun[1] EXCEPT !.pc = "done", !.status = "completed"]
                       ELSE IF status = "failed"
                       THEN CaughtBy(pollRun[1], FailedMessage(pollRun[1].kind, error))
                       ELSE [pollRun[1] EXCEPT !.pc = "sleep"])
    /\ UNCHANGED <<jobStore, dubCache, dubTasks>>
    /\ UNCHANGED <<mergeVars, ttsVars, pageVars>>

\* getDubbingProjectMetadata rejects
MetadataRejected(message) ==
    /\ pollRun # None
    /\ pollRun[1].pc = "metadata"
    /\ pollRun' = Some(CaughtBy(pollRun[1], << message >>))
    /\ UNCHANGED <<jobStore, dubCache, dubTasks>>
    /\ UNCHANGED <<mergeVars, ttsVars, pageVars>>

\* The loop after the 5 seconds, with `attempt <= maxAttempts` as its test
AfterSleepInclusive(run) ==
    LET next == [run EXCEPT !.attempt = @ + 1]
    IN  IF next.attempt <= maxAttempts(run.kind)
        THEN [next EXCEPT !.pc = "metadata"]
        ELSE CaughtBy(next, TimedOutMessage(run.kind))

\* The loop after the 5 seconds: attempt++, the test `attempt < maxAttempts`,
\* and either the next getDubbingProjectMetadata or the throw after the loop
AfterSleep(run) ==
    LET next == [run EXCEPT !.attempt = @ + 1]
    IN  IF next.attempt < maxAttempts(run.kind)
        THEN [next EXCEPT !.pc = "metadata"]
        ELSE CaughtBy(next, TimedOutMessage(run.kind))

\* setTimeout(resolve, 5000) fires
SleepEnds ==
    /\ pollRun # None
    /\ pollRun[1].pc = "sleep"
    /\ pollRun' = Some(AfterSleep(pollRun[1]))
    /\ UNCHANGED <<jobStore, dubCache, dubTasks>>
    /\ UNCHANGED <<mergeVars, ttsVars, pageVars>>

InitPoll ==
    /\ DubIdle
    /\ MergeIdle
    /\ TTSIdle
    /\ PagesIdle

NextPoll ==
    \/ \E kind \in PollKinds : StartPolling(kind)
    \/ \E status \in ProviderStatuses, error \in ProviderErrors :
            MetadataResolved(status, error)
    \/ \E message \in MetadataErrors : MetadataRejected(message)
    \/ SleepEnds

SpecPoll == InitPoll /\ [][NextPoll]_vars

----------------------------------------------------------------------------
(* Claims about the time-chunk dubbing job *)

\* The runs whose dub-creation call for the chunk was issued and whose
\* production of it (the call and the polling) has not settled.
Producing(chunkIndex) ==
    { run \in DubRuns : /\ run.pc \in {"dub", "poll"}
                        /\ CurrentChunk(run) = chunkIndex }

ProducingCount(chunkIndex) ==
    BagCardinality([ run \in Producing(chunkIndex) |-> dubTasks[run] ])

\* C2: for every chunk index at most one dub-creation call is outstanding:
\* no second call is issued while an earlier run's production of the same
\* chunk has not settled, whatever the interleaving of requestChunk calls
\* and the processNextChunk chain.
C2_SingleDubCall ==
    \A i \in ChunkIndices : ProducingCount(i) <= 1

\* C3: a chunk is not stuck in the processing state: when every run has
\* settled (each provider call has resolved or rejected and its handlers
\* have finished), no chunk of the stored job is reported as processing.
C3_NoChunkStuck ==
    (jobStore # None /\ dubTasks = EmptyBag) =>
        \A i \in 1..Len(jobStore[1].chunks) :
            jobStore[1].chunks[i].status # "processing"

\* A requestChunk call that starts a production run.
RequestStartsRun(chunkIndex) ==
    /\ RequestChunk(chunkIndex)
    /\ BagCardinality(dubTasks') = BagCardinality(dubTasks) + 1

\* C12: a chunk whose production failed can be retried: while the stored
\* chunk is failed (and the model's bound on runs leaves room), an explicit
\* request for it starts a new production run.
C12_RetryOnRequest ==
    \A i \in ChunkIndices :
        ( /\ jobStore # None
          /\ i < Len(jobStore[1].chunks)
          /\ jobStore[1].chunks[i + 1].status = "failed"
          /\ BagCardinality(dubTasks) < MaxDubTasks )
        => ENABLED RequestStartsRun(i)

\* C13: a request for a chunk of an unknown job (its get replies null) is
\* answered differently from a request for a chunk index or a time past the
\* end of an existing job.
C13_DistinctNotFound ==
    jobStore # None =>
        \A i \in ChunkIndices :
            i >= Len(jobStore[1].chunks) =>
                /\ ChunkResponse(RequestChunkResult(jobStore, i))
                        # ChunkResponse(RequestChunkResult(None, i))
                /\ ChunkResponse(GetChunkForTimeResult(jobStore, i * CHUNK_DURATION))
                        # ChunkResponse(GetChunkForTimeResult(None, i * CHUNK_DURATION))

\* C23: every chunk created for a job has index i in 0..totalChunks-1 with no
\* gaps, startTime = i * CHUNK_DURATION and endTime = startTime + CHUNK_DURATION,
\* for every video duration supplied at job creation.
C23_ChunkBoundaries ==
    jobStore # None =>
        LET job == jobStore[1]
        IN  /\ job.totalChunks = Len(job.chunks)
            /\ \A i \in 0..(Len(job.chunks) - 1) :
                LET chunk == job.chunks[i + 1]
                IN  /\ chunk.index = i
                    /\ chunk.startTime = i * CHUNK_DURATION
                    /\ chunk.endTime = chunk.startTime + CHUNK_DURATION

----------------------------------------------------------------------------
(* SpecMerge: mergeIntoSentences on every bounded ordered fragment list *)

FragmentTexts == { <<>>, <<"a">>, <<"b", ".">>, <<" ">> }
FragmentOffsets == {0, 4000, 8000}
FragmentDurations == {0, 4000, 12000}

Fragments ==
    [text : FragmentTexts, offset : FragmentOffsets, duration : FragmentDurations]

\* Fragment lists are ordered by start offset.
OrderedByOffset(raw) ==
    \A i \in 1..(Len(raw) - 1) : raw[i].offset <= raw[i + 1].offset

FragmentLists ==
    UNION { { raw \in [1..n -> Fragments] : OrderedByOffset(raw) } : n \in 0..MaxFragments }

InitMerge ==
    /\ rawSegments \in FragmentLists
    /\ targetDuration \in {DefaultTargetDuration, SessionTargetDuration}
    /\ mergeResult = None
    /\ mergeClosedAt = <<>>
    /\ TTSIdle
    /\ DubIdle
    /\ PagesIdle

CallMerge ==
    /\ mergeResult = None
    /\ mergeResult' = Some(mergeIntoSentences(rawSegments, targetDuration))
    /\ mergeClosedAt' = MergeLoop(rawSegments, 1, MergeStart, targetDuration).closedAt
    /\ UNCHANGED <<rawSegments, targetDuration>>
    /\ UNCHANGED <<ttsVars, dubVars, pageVars>>

NextMerge == CallMerge

SpecMerge == InitMerge /\ [][NextMerge]_vars

----------------------------------------------------------------------------
(* Claims about the segment merger (SpecMerge) *)

Merged == mergeResult[1]

\* The fragments accumulated into segment k: those consumed after the previous
\* push, up to and including the one at which segment k was pushed.
FirstFragmentOf(k) == IF k = 1 THEN 1 ELSE mergeClosedAt[k - 1] + 1
LastFragmentOf(k) == mergeClosedAt[k]

RECURSIVE JoinTexts(_, _, _)
JoinTexts(raw, lo, hi) ==
    IF lo > hi THEN <<>>
    ELSE IF lo = hi THEN raw[lo].text
    ELSE raw[lo].text \o <<" ">> \o JoinTexts(raw, lo + 1, hi)

\* C6: merge coverage.  Every fragment is assigned to exactly one segment, in
\* order: the pushes happen at strictly increasing fragment positions, the last
\* one at the last fragment, one segment per push; segment k carries the text of
\* exactly the fragments between push k-1 and push k; every segment holds at
\* least one fragment, so there are at most as many segments as fragments; and
\* an empty input yields an empty list.
C6_MergeCoverage ==
    mergeResult # None =>
        /\ Len(Merged) = Len(mergeClosedAt)
        /\ Len(Merged) <= Len(rawSegments)
        /\ rawSegments = <<>> => Merged = <<>>
        /\ rawSegments # <<>> =>
                /\ Len(Merged) >= 1
                /\ LastFragmentOf(Len(Merged)) = Len(rawSegments)
        /\ \A k \in 1..Len(Merged) :
                /\ FirstFragmentOf(k) <= LastFragmentOf(k)
                /\ LastFragmentOf(k) \in 1..Len(rawSegments)
                /\ Merged[k].originalText =
                        Trim(JoinTexts(rawSegments, FirstFragmentOf(k), LastFragmentOf(k)))

\* C6 witness: three fragments were merged into two segments, the first of
\* which holds two fragments.
C6_Witness ==
    /\ mergeResult # None
    /\ Len(rawSegments) = 3
    /\ Len(Merged) = 2
    /\ mergeClosedAt = <<2, 3>>
    /\ Merged[1].originalText = <<"a", " ", "b", ".">>

\* C7: segment invariant, as claimed for every ordered fragment list: indices
\* 0-based and contiguous, endTime > startTime, segments non-overlapping and
\* strictly increasing in startTime.
C7_SegmentInvariant ==
    mergeResult # None =>
        /\ \A k \in 1..Len(Merged) :
                /\ Merged[k].index = k - 1
                /\ Merged[k].endTime > Merged[k].startTime
        /\ \A k \in 1..(Len(Merged) - 1) :
                /\ Merged[k].endTime <= Merged[k + 1].startTime
                /\ Merged[k].startTime < Merged[k + 1].startTime

\* C8: segment bounds, as claimed: a segment starts where the first fragment
\* accumulated into it starts and ends where the last one ends.
C8_SegmentBounds ==
    mergeResult # None =>
        \A k \in 1..Len(Merged) :
            /\ Merged[k].startTime = rawSegments[FirstFragmentOf(k)].offset
            /\ Merged[k].endTime =
                    rawSegments[LastFragmentOf(k)].offset
                        + rawSegments[LastFragmentOf(k)].duration

----------------------------------------------------------------------------
(* The chunk-based playback synchronizer (YouTube content script,          *)
(* src/unnamed/part_010, lines 1-330).  Times of the page are kept in      *)
(* milliseconds; chunk boundaries keep the server's seconds.  The page     *)
(* state chunkPage is a record of the video element and the script's       *)
(* module variables:                                                       *)
(*   video             the page's <video>: currentTime, paused,            *)
(*                     playbackRate, volume (percent), listeners;          *)
(*   videoElement      TRUE when the script holds the element, FALSE: null;*)
(*   currentJob        None or Some([duration, chunks, volume]);           *)
(*   currentChunkAudio None or Some(audio element: the chunk it was made   *)
(*                     for, currentTime, paused, playbackRate, volume);    *)
(*   currentChunkIndex, isActive;                                          *)
(*   checkInterval     TRUE while the interval timer is set;               *)
(*   calls             bag of suspended async calls: checkCurrentChunk at  *)
(*                     `await audio.play()` ("play") or at its POST        *)
(*                     ("request"), with its local currentTime and whether *)
(*                     the interval callback goes on to pollJobStatus; or  *)
(*                     pollJobStatus at its fetch ("status");              *)
(*   volumeAtStart     history: the video's volume when playback was       *)
(*                     started from the stopped state.                     *)

\* CHUNK_DURATION of the content script, in milliseconds
ChunkMs == CHUNK_DURATION * 1000

\* if (drift > 0.3), in milliseconds
DriftThreshold == 300

\* The durations (seconds) of the videos dubbed: the longest has MaxSyncChunks
\* whole chunks, the other ends in the middle of its last chunk.
SyncDurations == { CHUNK_DURATION * MaxSyncChunks - 15, CHUNK_DURATION * MaxSyncChunks }

\* Positions of the video, in milliseconds.
VideoTimes ==
    { 0, ChunkMs } \cup { ChunkMs * k + 15000 : k \in (MaxSyncChunks - 2)..(MaxSyncChunks - 1) }

PlaybackRates == { 1, 2 }

\* Volume of the video before the script touches it, in percent.
UserVolumes == { 50 }

\* How far the audio clock may be off the video clock after playing, in ms:
\* at the threshold, and beyond it.
AudioDrifts == { 300, -400 }

\* The volume of the dubbed audio chosen in the side panel, in percent.
DubVolumes == { 80 }

\* job.chunks as the server reports it when the chunks of `done` are completed.
ClientChunks(duration, done) ==
    LET job == NewJob(duration)
    IN  [ i \in 1..Len(job.chunks) |->
            IF (i - 1) \in done
            THEN Dubbed(WithDubbingId(job, i - 1, "dub1"), i - 1).chunks[i]
            ELSE job.chunks[i] ]

\* getChunkIndex: Math.floor(time / CHUNK_DURATION)
getChunkIndex(time) == time \div ChunkMs

Max(a, b) == IF a >= b THEN a ELSE b

Abs(a) == IF a >= 0 THEN a ELSE -a

\* currentJob.chunks[index], undefined (None) outside the array
ChunkAt(job, index) ==
    IF index \in 0..(Len(job.chunks) - 1) THEN Some(job.chunks[index + 1]) ELSE None

Suspended(p, at, currentTime, after) ==
    [ p EXCEPT !.calls = @ (+) SetToBag({ [ at |-> at, currentTime |-> currentTime,
                                           after |-> after,
                                           duration |-> p.currentJob[1].duration ] }) ]

\* pollJobStatus up to its fetch
pollJobStatus(p) ==
    IF p.currentJob = None THEN p ELSE Suspended(p, "status", 0, "none")

\* What follows a finished checkCurrentChunk: the interval callback goes on
\* to pollJobStatus, the other callers have nothing left to do.
Finished(p, after) == IF after = "poll" THEN pollJobStatus(p) ELSE p

\* switchToChunk up to `await currentChunkAudio.play()`
switchToChunk(p, chunk) ==
    IF p.currentJob = None \/ ~p.videoElement \/ chunk.audioUrl = None THEN p
    ELSE [ p EXCEPT
            !.currentChunkAudio =
                Some([ chunk        |-> chunk.index,
                       currentTime  |-> Max(0, p.video.currentTime - chunk.startTime * 1000),
                       playbackRate |-> p.video.playbackRate,
                       paused       |-> p.video.paused,
                       volume       |-> p.currentJob[1].volume ]),
            !.currentChunkIndex = chunk.index ]

\* "Sync audio time if playing" seeking already at the threshold
SyncAudioTimeAtThreshold(p, currentTime) ==
    IF p.currentChunkAudio = None \/ ~p.videoElement \/ p.video.paused
            \/ p.currentJob = None
    THEN p
    ELSE LET chunk == ChunkAt(p.currentJob[1], p.currentChunkIndex)
             audio == p.currentChunkAudio[1]
         IN  IF chunk = None THEN p
             ELSE LET expectedOffset == currentTime - chunk[1].startTime * 1000
                      drift == Abs(expectedOffset - audio.currentTime)
                  IN  IF drift >= DriftThreshold
                      THEN [ p EXCEPT !.currentChunkAudio[1].currentTime =
                                            Max(0, expectedOffset) ]
                      ELSE p

\* checkCurrentChunk, "Sync audio time if playing", with the currentTime the
\* call read when it started.  Reading videoElement.paused when the script
\* was stopped meanwhile throws, which ends the call.
SyncAudioTime(p, currentTime) ==
    IF p.currentChunkAudio = None \/ ~p.videoElement \/ p.video.paused
            \/ p.currentJob = None
    THEN p
    ELSE LET chunk == ChunkAt(p.currentJob[1], p.currentChunkIndex)
             audio == p.currentChunkAudio[1]
         IN  IF chunk = None THEN p
             ELSE LET expectedOffset == currentTime - chunk[1].startTime * 1000
                      drift == Abs(expectedOffset - audio.currentTime)
                  IN  IF drift > DriftThreshold
                      THEN [ p EXCEPT !.currentChunkAudio[1].currentTime =
                                            Max(0, expectedOffset) ]
                      ELSE p

\* checkCurrentChunk from its first line to its first suspension or its end.
\* `after` is "poll" when the interval callback called it.
checkCurrentChunk(p, after) ==
    IF p.currentJob = None \/ ~p.videoElement \/ ~p.isActive THEN Finished(p, after)
    ELSE LET currentTime == p.video.currentTime
             neededChunkIndex == getChunkIndex(currentTime)
             chunk == ChunkAt(p.currentJob[1], neededChunkIndex)
         IN  IF neededChunkIndex = p.currentChunkIndex
             THEN Finished(SyncAudioTime(p, currentTime), after)
             ELSE IF chunk = None THEN Finished(p, after)
             ELSE IF chunk[1].status = "completed" /\ chunk[1].audioUrl # None
             THEN IF p.video.paused
                  THEN Finished(SyncAudioTime(switchToChunk(p, chunk[1]), currentTime), after)
                  ELSE Suspended(switchToChunk(p, chunk[1]), "play", currentTime, after)
             ELSE IF chunk[1].status = "pending"
             THEN Suspended(p, "request", currentTime, after)
             ELSE Finished(SyncAudioTime(p, currentTime), after)

\* checkCurrentChunk from the settling of its await to its end
Resumed(p, call) ==
    Finished(SyncAudioTime([ p EXCEPT !.calls = @ (-) SetToBag({ call }) ], call.currentTime),
             call.after)

\* pollJobStatus from the answer of its fetch: currentJob.chunks = job.chunks
\* throws into the catch when the script was stopped meanwhile.
StatusAnswered(p, call, done) ==
    LET q == [ p EXCEPT !.calls = @ (-) SetToBag({ call }) ]
    IN  IF q.currentJob = None THEN q
        ELSE checkCurrentChunk(
                [ q EXCEPT !.currentJob[1].chunks = ClientChunks(call.duration, done) ],
                "none")

stopPlayback(p) ==
    [ p EXCEPT
        !.currentChunkAudio = None,
        !.checkInterval = FALSE,
        !.video.volume = IF p.videoElement THEN 100 ELSE @,
        !.video.listeners = IF p.videoElement THEN {} ELSE @,
        !.videoElement = FALSE,
        !.currentJob = None,
        !.currentChunkIndex = -1,
        !.isActive = FALSE ]

TransportListeners == { "play", "pause", "seeked", "ratechange" }

startChunkPlayback(p, duration, done, volume) ==
    LET q == stopPlayback(p)
    IN  checkCurrentChunk(
            [ q EXCEPT
                !.videoElement = TRUE,
                !.currentJob = Some([ duration |-> duration,
                                      chunks |-> ClientChunks(duration, done),
                                      volume |-> volume ]),
                !.isActive = TRUE,
                !.video.volume = 10,
                !.video.listeners = TransportListeners,
                !.checkInterval = TRUE,
                !.volumeAtStart = IF p.videoElement THEN @ ELSE Some(p.video.volume) ],
            "none")

handleVideoPlay(p) ==
    IF p.currentChunkAudio # None /\ p.isActive
    THEN [ p EXCEPT !.currentChunkAudio[1].paused = FALSE ]
    ELSE p

handleVideoPause(p) ==
    IF p.currentChunkAudio # None
    THEN [ p EXCEPT !.currentChunkAudio[1].paused = TRUE ]
    ELSE p

handleVideoSeeked(p) == checkCurrentChunk(p, "none")

handleRateChange(p) ==
    IF p.currentChunkAudio # None /\ p.videoElement
    THEN [ p EXCEPT !.currentChunkAudio[1].playbackRate = p.video.playbackRate ]
    ELSE p

\* The element dispatches `event` to the handler registered for it, if any.
Dispatched(p, event) ==
    IF event \notin p.video.listeners THEN p
    ELSE CASE event = "play"       -> handleVideoPlay(p)
           [] event = "pause"      -> handleVideoPause(p)
           [] event = "seeked"     -> handleVideoSeeked(p)
           [] event = "ratechange" -> handleRateChange(p)

\* Every handler that may suspend a call is taken only while the bag of
\* suspended calls has room.
CallsBounded(p) == BagCardinality(p.calls) <= MaxCalls

Becomes(p) ==
    /\ CallsBounded(p)
    /\ chunkPage' = p
    /\ UNCHANGED <<mergeVars, ttsVars, dubVars, segmentPage>>

\* HERCULES_START_CHUNKS
StartChunks(duration, done, volume) ==
    Becomes(startChunkPlayback(chunkPage, duration, done, volume))

\* HERCULES_STOP
StopChunks == Becomes(stopPlayback(chunkPage))

\* HERCULES_UPDATE_CHUNKS
UpdateChunks(done) ==
    /\ chunkPage.currentJob # None
    /\ Becomes(checkCurrentChunk(
            [ chunkPage EXCEPT !.currentJob[1].chunks =
                                    ClientChunks(chunkPage.currentJob[1].duration, done) ],
            "none"))

\* The interval fires: await checkCurrentChunk(); await pollJobStatus()
IntervalFires ==
    /\ chunkPage.checkInterval
    /\ Becomes(checkCurrentChunk(chunkPage, "poll"))

\* The promise a suspended checkCurrentChunk awaits settles.
AwaitSettles(call) ==
    /\ call \in BagToSet(chunkPage.calls)
    /\ call.at \in { "play", "request" }
    /\ Becomes(Resumed(chunkPage, call))

\* The status request of pollJobStatus is answered.
StatusReplies(call, done) ==
    /\ call \in BagToSet(chunkPage.calls)
    /\ call.at = "status"
    /\ done \subseteq 0..(Len(NewJob(call.duration).chunks) - 1)
    /\ Becomes(StatusAnswered(chunkPage, call, done))

UserPlays ==
    /\ chunkPage.video.paused
    /\ Becomes(Dispatched([ chunkPage EXCEPT !.video.paused = FALSE ], "play"))

UserPauses ==
    /\ ~chunkPage.video.paused
    /\ Becomes(Dispatched([ chunkPage EXCEPT !.video.paused = TRUE ], "pause"))

UserSeeks(time) ==
    /\ time # chunkPage.video.currentTime
    /\ Becomes(Dispatched([ chunkPage EXCEPT !.video.currentTime = time ], "seeked"))

UserChangesRate(rate) ==
    /\ rate # chunkPage.video.playbackRate
    /\ Becomes(Dispatched([ chunkPage EXCEPT !.video.playbackRate = rate ], "ratechange"))

\* The video plays on to `time`; a playing audio moves with it, off by `drift`,
\* and stops at its end.
MediaPlays(time, drift) ==
    /\ ~chunkPage.video.paused
    /\ time > chunkPage.video.currentTime
    /\ LET p == chunkPage
           audio == p.currentChunkAudio
       IN  Becomes([ p EXCEPT
                !.video.currentTime = time,
                !.currentChunkAudio =
                    IF audio # None /\ ~audio[1].paused
                    THEN Some([ audio[1] EXCEPT !.currentTime =
                                    Min(ChunkMs, Max(0, time - audio[1].chunk * ChunkMs + drift)) ])
                    ELSE @ ])

InitChunkSync ==
    /\ MergeIdle /\ TTSIdle /\ DubIdle
    /\ segmentPage = StoppedSegmentPage(100)
    /\ \E volume \in UserVolumes : chunkPage = StoppedPage(volume)

NextChunkSync ==
    \/ \E duration \in SyncDurations, volume \in DubVolumes :
            \E done \in SUBSET (0..(MaxSyncChunks - 1)) : StartChunks(duration, done, volume)
    \/ StopChunks
    \/ \E done \in SUBSET (0..(MaxSyncChunks - 1)) : UpdateChunks(done)
    \/ IntervalFires
    \/ \E call \in BagToSet(chunkPage.calls) : AwaitSettles(call)
    \/ \E call \in BagToSet(chunkPage.calls) :
            \E done \in SUBSET (0..(MaxSyncChunks - 1)) : StatusReplies(call, done)
    \/ UserPlays
    \/ UserPauses
    \/ \E time \in VideoTimes : UserSeeks(time)
    \/ \E rate \in PlaybackRates : UserChangesRate(rate)
    \/ \E time \in VideoTimes, drift \in AudioDrifts : MediaPlays(time, drift)

SpecChunkSync == InitChunkSync /\ [][NextChunkSync]_vars

----------------------------------------------------------------------------
(* The segment-based playback synchronizer (YouTube content script,        *)
(* src/pages/content/src/matches/youtube/index.ts).  The page state        *)
(* segmentPage is a record of the video element, the script's module       *)
(* variables and what the script sees of the server:                       *)
(*   video              the page's <video>: currentTime (ms), paused,      *)
(*                      volume (percent), listeners;                       *)
(*   session, videoElement   TRUE when set, FALSE when null;               *)
(*   currentAudio       None or Some([segment, paused, ended, advanced:   *)
(*                      which onended handler it has]);                    *)
(*   currentSegmentIndex, isActive;                                        *)
(*   pollInterval       TRUE while the interval timer is set;              *)
(*   playedSegments, preloadingSegments   sets of segment indices;         *)
(*   preloadedAudio     the keys of the Map of preloaded audio elements;   *)
(*   calls              bag of suspended async calls: updatePlayback at    *)
(*                      its request ("segment", with its currentTime),     *)
(*                      playSegmentAudio at `await currentAudio.play()`    *)
(*                      ("play"), preloadSegmentAudio at its request       *)
(*                      ("preload") or at the loading of the audio         *)
(*                      ("load"), the subtitle request of onended          *)
(*                      ("subtitle");                                      *)
(*   serverReady        the segments whose audio the server has ready;     *)
(*   volumeAtStart      history: the video's volume when the translation   *)
(*                      was started from the stopped state.                *)

\* Length of every segment of the session, in milliseconds.
SegmentMs == 4000

\* The segments of the session: 0 .. MaxSyncSegments - 1.
SegmentIds == 0..(MaxSyncSegments - 1)

\* Positions of the video: the start of every segment, and the end of the last.
SegmentVideoTimes == { SegmentMs * k : k \in 0..MaxSyncSegments }

\* The response of POST /session/:id/segment as the script reads it: the
\* segment's index (None: no segment) and whether its audio is ready.
SegmentResponse(p, index) ==
    IF index \notin SegmentIds
    THEN [ status |-> "no_segment", segment |-> None ]
    ELSE [ status |-> IF index \in p.serverReady THEN "ready" ELSE "generating_audio",
           segment |-> Some(index) ]

Calling(p, at, segment, currentTime) ==
    [ p EXCEPT !.calls = @ (+) SetToBag({ [ at |-> at, segment |-> segment,
                                           currentTime |-> currentTime ] }) ]

Returned(p, call) == [ p EXCEPT !.calls = @ (-) SetToBag({ call }) ]

stopTranslation(p) ==
    [ p EXCEPT
        !.isActive = FALSE,
        !.currentAudio = None,
        !.preloadedAudio = {},
        !.preloadingSegments = {},
        !.pollInterval = FALSE,
        !.video.volume = IF p.videoElement THEN 100 ELSE @,
        !.video.listeners = IF p.videoElement THEN {} ELSE @,
        !.videoElement = FALSE,
        !.session = FALSE,
        !.currentSegmentIndex = -1,
        !.playedSegments = {} ]

\* preloadSegmentAudio up to its fetch
preloadSegmentAudio(p, segmentIndex) ==
    IF ~p.session \/ segmentIndex \in p.preloadedAudio
            \/ segmentIndex \in p.preloadingSegments
    THEN p
    ELSE Calling([ p EXCEPT !.preloadingSegments = @ \cup { segmentIndex } ],
                 "preload", segmentIndex, 0)

\* playSegmentAudio without the test of playedSegments
playSegmentAudioAgain(p, segment) ==
    IF ~p.session \/ ~p.videoElement THEN p
    ELSE IF p.currentAudio # None /\ ~p.currentAudio[1].paused /\ ~p.currentAudio[1].ended
    THEN IF segment \notin p.preloadedAudio /\ segment \notin p.preloadingSegments
         THEN [ p EXCEPT !.preloadedAudio = @ \cup { segment } ]
         ELSE p
    ELSE Calling([ p EXCEPT
                    !.currentAudio = Some([ segment |-> segment, paused |-> FALSE,
                                            ended |-> FALSE, advanced |-> FALSE ]),
                    !.preloadedAudio = @ \ { segment },
                    !.currentSegmentIndex = segment,
                    !.playedSegments = @ \cup { segment } ],
                 "play", segment, 0)

\* playSegmentAudio up to `await currentAudio.play()`: play() is called
\* whatever the state of the video.
playSegmentAudio(p, segment) ==
    IF ~p.session \/ ~p.videoElement THEN p
    ELSE IF segment \in p.playedSegments THEN p
    ELSE IF p.currentAudio # None /\ ~p.currentAudio[1].paused /\ ~p.currentAudio[1].ended
    THEN IF segment \notin p.preloadedAudio /\ segment \notin p.preloadingSegments
         THEN [ p EXCEPT !.preloadedAudio = @ \cup { segment } ]
         ELSE p
    ELSE Calling([ p EXCEPT
                    !.currentAudio = Some([ segment |-> segment, paused |-> FALSE,
                                            ended |-> FALSE, advanced |-> FALSE ]),
                    !.preloadedAudio = @ \ { segment },
                    !.currentSegmentIndex = segment,
                    !.playedSegments = @ \cup { segment } ],
                 "play", segment, 0)

\* playSegmentAudio after `await currentAudio.play()`: preload the next two
PlayAwaited(p, call) ==
    preloadSegmentAudio(preloadSegmentAudio(Returned(p, call), call.segment + 1),
                        call.segment + 2)

\* updatePlayback up to its request
updatePlayback(p) ==
    IF ~p.session \/ ~p.videoElement \/ ~p.isActive THEN p
    ELSE Calling(p, "segment", -1, p.video.currentTime)

\* updatePlayback from the response of its request
SegmentAnswered(p, call) ==
    LET q == Returned(p, call)
        response == SegmentResponse(p, call.currentTime \div SegmentMs)
    IN  IF response.segment = None THEN q
        ELSE IF response.segment[1] = q.currentSegmentIndex THEN q
        ELSE IF response.status = "ready" THEN playSegmentAudio(q, response.segment[1])
        ELSE q

\* requestSegment answered 404: the session expired
SegmentNotFound(p, call) == stopTranslation(Returned(p, call))

\* preloadSegmentAudio from the response of its request; reading
\* session.serverUrl of a stopped script throws into the catch.
PreloadAnswered(p, call) ==
    LET q == Returned(p, call)
    IN  IF p.session /\ SegmentResponse(p, call.segment).status = "ready"
        THEN Calling(q, "load", call.segment, 0)
        ELSE [ q EXCEPT !.preloadingSegments = @ \ { call.segment } ]

\* preloadSegmentAudio from canplaythrough / error of the audio
AudioLoadedFor(p, call) ==
    [ Returned(p, call) EXCEPT
        !.preloadedAudio = @ \cup { call.segment },
        !.preloadingSegments = @ \ { call.segment } ]

\* currentAudio.onended as set by playSegmentAudio for `segment`
onended(p, segment) ==
    LET nextIndex == segment + 1
    IN  IF nextIndex \in p.preloadedAudio /\ nextIndex \notin p.playedSegments /\ p.isActive
        THEN Calling([ p EXCEPT
                        !.preloadedAudio = @ \ { nextIndex },
                        !.currentAudio = Some([ segment |-> nextIndex, paused |-> FALSE,
                                                ended |-> FALSE, advanced |-> TRUE ]),
                        !.currentSegmentIndex = nextIndex,
                        !.playedSegments = @ \cup { nextIndex } ],
                     "subtitle", nextIndex, p.video.currentTime)
        ELSE p

\* The page after the playing audio reached its end and `ended` was handled.
AfterEnded(p) ==
    LET q == [ p EXCEPT !.currentAudio[1].paused = TRUE, !.currentAudio[1].ended = TRUE ]
    IN  IF p.currentAudio[1].advanced THEN q ELSE onended(q, p.currentAudio[1].segment)

\* handleVideoPlay of the segment script: play() on an audio that has ended
\* starts it again from its beginning.
resumeCurrentAudio(p) ==
    IF p.currentAudio # None /\ p.isActive
    THEN [ p EXCEPT !.currentAudio[1].paused = FALSE, !.currentAudio[1].ended = FALSE ]
    ELSE p

\* handleVideoPause of the segment script
pauseCurrentAudio(p) ==
    IF p.currentAudio # None
    THEN [ p EXCEPT !.currentAudio[1].paused = TRUE ]
    ELSE p

\* handleVideoSeeked of the segment script
resetOnSeeked(p) ==
    updatePlayback([ p EXCEPT
        !.currentSegmentIndex = -1,
        !.playedSegments = {},
        !.preloadedAudio = {},
        !.preloadingSegments = {},
        !.currentAudio = None ])

SegmentListeners == { "play", "pause", "seeked" }

startTranslation(p) ==
    LET q == stopTranslation(p)
    IN  updatePlayback(
            [ q EXCEPT
                !.videoElement = TRUE,
                !.session = TRUE,
                !.isActive = TRUE,
                !.video.volume = 15,
                !.video.listeners = SegmentListeners,
                !.pollInterval = TRUE,
                !.volumeAtStart = IF p.videoElement THEN @ ELSE Some(p.video.volume) ])

SegmentDispatched(p, event) ==
    IF event \notin p.video.listeners THEN p
    ELSE CASE event = "play"   -> resumeCurrentAudio(p)
           [] event = "pause"  -> pauseCurrentAudio(p)
           [] event = "seeked" -> resetOnSeeked(p)

SegmentBecomes(p) ==
    /\ BagCardinality(p.calls) <= MaxSegmentCalls
    /\ segmentPage' = p
    /\ UNCHANGED <<mergeVars, ttsVars, dubVars, chunkPage>>

\* HERCULES_START
StartSegments == SegmentBecomes(startTranslation(segmentPage))

\* HERCULES_STOP
StopSegments == SegmentBecomes(stopTranslation(segmentPage))

\* The interval fires: updatePlayback
PollFires ==
    /\ segmentPage.pollInterval
    /\ SegmentBecomes(updatePlayback(segmentPage))

\* A request of the script is answered, or a promise it awaits settles.
CallReturns(call) ==
    /\ call \in BagToSet(segmentPage.calls)
    /\ SegmentBecomes(
        CASE call.at = "segment"  -> SegmentAnswered(segmentPage, call)
          [] call.at = "play"     -> PlayAwaited(segmentPage, call)
          [] call.at = "preload"  -> PreloadAnswered(segmentPage, call)
          [] call.at = "load"     -> AudioLoadedFor(segmentPage, call)
          [] call.at = "subtitle" -> Returned(segmentPage, call))

\* A request of requestSegment is answered 404.
SessionExpires(call) ==
    /\ call \in BagToSet(segmentPage.calls)
    /\ call.at \in { "segment", "subtitle" }
    /\ SegmentBecomes(SegmentNotFound(segmentPage, call))

\* The server finishes the audio of a segment.
SegmentGetsReady(index) ==
    /\ index \notin segmentPage.serverReady
    /\ SegmentBecomes([ segmentPage EXCEPT !.serverReady = @ \cup { index } ])

\* The playing audio reaches its end: it is paused and `ended` fires.
AudioEnds ==
    /\ segmentPage.currentAudio # None
    /\ ~segmentPage.currentAudio[1].paused
    /\ SegmentBecomes(AfterEnded(segmentPage))

SegmentUserPlays ==
    /\ segmentPage.video.paused
    /\ SegmentBecomes(SegmentDispatched([ segmentPage EXCEPT !.video.paused = FALSE ], "play"))

SegmentUserPauses ==
    /\ ~segmentPage.video.paused
    /\ SegmentBecomes(SegmentDispatched([ segmentPage EXCEPT !.video.paused = TRUE ], "pause"))

SegmentUserSeeks(time) ==
    /\ time # segmentPage.video.currentTime
    /\ SegmentBecomes(SegmentDispatched([ segmentPage EXCEPT !.video.currentTime = time ],
                                        "seeked"))

\* The video plays on to `time`.
SegmentVideoPlays(time) ==
    /\ ~segmentPage.video.paused
    /\ time > segmentPage.video.currentTime
    /\ SegmentBecomes([ segmentPage EXCEPT !.video.currentTime = time ])

InitSegmentSync ==
    /\ MergeIdle /\ TTSIdle /\ DubIdle
    /\ chunkPage = StoppedPage(100)
    /\ \E volume \in UserVolumes : segmentPage = StoppedSegmentPage(volume)

NextSegmentSync ==
    \/ StartSegments
    \/ StopSegments
    \/ PollFires
    \/ \E call \in BagToSet(segmentPage.calls) : CallReturns(call)
    \/ \E call \in BagToSet(segmentPage.calls) : SessionExpires(call)
    \/ \E index \in SegmentIds : SegmentGetsReady(index)
    \/ AudioEnds
    \/ SegmentUserPlays
    \/ SegmentUserPauses
    \/ \E time \in SegmentVideoTimes : SegmentUserSeeks(time)
    \/ \E time \in SegmentVideoTimes : SegmentVideoPlays(time)

SpecSegmentSync == InitSegmentSync /\ [][NextSegmentSync]_vars

----------------------------------------------------------------------------
(* Claims about the chunk-based playback synchronizer *)

\* The chunks checkCurrentChunk would hand to switchToChunk in this state.
SwitchTargets ==
    LET p == chunkPage
    IN  IF p.currentJob = None \/ ~p.videoElement \/ ~p.isActive THEN {}
        ELSE { chunk \in { p.currentJob[1].chunks[i] : i \in DOMAIN p.currentJob[1].chunks } :
                 /\ chunk.index = getChunkIndex(p.video.currentTime)
                 /\ chunk.index # p.currentChunkIndex
                 /\ chunk.status = "completed"
                 /\ chunk.audioUrl # None }

\* C16: when the synchronizer switches to a unit, the newly loaded audio is
\* positioned at (transport position - unit.startTime) clamped to
\* [0, unitDuration), and its playback rate is the transport's rate.
C16_SwitchOverOffset ==
    \A chunk \in SwitchTargets :
        LET audio == switchToChunk(chunkPage, chunk).currentChunkAudio[1]
            offset == chunkPage.video.currentTime - chunk.startTime * 1000
            unitDuration == (chunk.endTime - chunk.startTime) * 1000
        IN  /\ audio.chunk = chunk.index
            /\ audio.currentTime >= 0
            /\ audio.currentTime < unitDuration
            /\ (offset >= 0 /\ offset < unitDuration) => audio.currentTime = offset
            /\ audio.playbackRate = chunkPage.video.playbackRate

\* A poll tick is due while the video and the loaded audio are both playing
\* and the loaded chunk is the one the video is in.
BothPlaying ==
    LET p == chunkPage
    IN  /\ p.checkInterval /\ p.isActive /\ p.videoElement /\ p.currentJob # None
        /\ p.currentChunkAudio # None
        /\ ~p.video.paused
        /\ ~p.currentChunkAudio[1].paused
        /\ p.currentChunkIndex = getChunkIndex(p.video.currentTime)

\* transport position - start of the loaded unit
ExpectedOffset ==
    chunkPage.video.currentTime
        - chunkPage.currentJob[1].chunks[chunkPage.currentChunkIndex + 1].startTime * 1000

Drift == Abs(chunkPage.currentChunkAudio[1].currentTime - ExpectedOffset)

AudioLoaded ==
    /\ chunkPage.isActive
    /\ chunkPage.currentChunkAudio # None
    /\ chunkPage.video.listeners = TransportListeners

PausedByHandler ==
    Dispatched([ chunkPage EXCEPT !.video.paused = TRUE ], "pause").currentChunkAudio[1].paused

ResumedByHandler ==
    ~Dispatched([ chunkPage EXCEPT !.video.paused = FALSE ], "play").currentChunkAudio[1].paused

RatedByHandler ==
    \A rate \in PlaybackRates :
        Dispatched([ chunkPage EXCEPT !.video.playbackRate = rate ], "ratechange")
            .currentChunkAudio[1].playbackRate = rate

\* After a seek to a position inside the chunk whose audio is then loaded, the
\* audio is at the offset of that position.
SeekedByHandler ==
    \A time \in VideoTimes :
        LET audio == Dispatched([ chunkPage EXCEPT !.video.currentTime = time ], "seeked")
                        .currentChunkAudio
        IN  (audio # None /\ audio[1].chunk = getChunkIndex(time))
                => audio[1].currentTime = time - audio[1].chunk * ChunkMs

\* C19: on a transport pause event the loaded audio is paused, on play it is
\* resumed, on seek it is re-seeked to the offset matching the new position and
\* on rate-change its playback rate is set to the transport's rate, each by the
\* event handler itself, whether or not the transport is paused and whether or
\* not the position stays inside the same unit.
C19_EdgeTriggered ==
    AudioLoaded =>
        /\ PausedByHandler
        /\ ResumedByHandler
        /\ RatedByHandler
        /\ SeekedByHandler

\* C20: stopping the synchronizer cancels the poll timer, releases the loaded
\* audio, removes the transport listeners and restores the transport volume to
\* the value it had before the session was started.
C20_StopRestores ==
    chunkPage.isActive =>
        LET stopped == stopPlayback(chunkPage)
        IN  /\ ~stopped.checkInterval
            /\ stopped.currentChunkAudio = None
            /\ stopped.video.listeners = {}
            /\ stopped.video.volume = chunkPage.volumeAtStart[1]

\* The times (ms) at which a chunk is looked up: 0 s, 29.9 s, 30 s and 45 s.
LocateTimes == { 0, CHUNK_DURATION * 1000 - 100, CHUNK_DURATION * 1000, CHUNK_DURATION * 1500 }

\* The server and the client locate every time in chunk floor(t / CHUNK_DURATION).
SameIndex ==
    jobStore # None =>
        \A t \in LocateTimes :
            LET found == GetChunkForTimeMs(jobStore, t)
            IN  /\ getChunkIndex(t) = t \div (CHUNK_DURATION * 1000)
                /\ found # None => found[1].index = getChunkIndex(t)
                /\ found = None <=> getChunkIndex(t) >= Len(jobStore[1].chunks)

\* C22: for every time t, getChunkForTime and the client's getChunkIndex both
\* yield floor(t / CHUNK_DURATION) (0 s and 29.9 s give 0, 30 s gives 1), and
\* the chunk returned for t has startTime <= t < endTime.
C22_FixedChunkIndexing ==
    /\ getChunkIndex(0) = 0
    /\ getChunkIndex(CHUNK_DURATION * 1000 - 100) = 0
    /\ getChunkIndex(CHUNK_DURATION * 1000) = 1
    /\ SameIndex
    /\ jobStore # None =>
        \A t \in LocateTimes :
            LET found == GetChunkForTimeMs(jobStore, t)
            IN  found # None =>
                    /\ found[1].startTime * 1000 <= t
                    /\ t < found[1].endTime * 1000

----------------------------------------------------------------------------
(* Claims about the segment-based playback synchronizer *)

\* C17: dubbed audio is started by a switch-over only if the transport is
\* playing: when the answer to a poll loads a newly ready segment while the
\* video is paused, the loaded audio is left not playing.
C17_PlayOnlyIfPlaying ==
    \A call \in BagToSet(segmentPage.calls) :
        (call.at = "segment" /\ segmentPage.isActive /\ segmentPage.video.paused) =>
            LET loaded == SegmentAnswered(segmentPage, call)
            IN  (/\ loaded.currentAudio # None
                 /\ loaded.currentSegmentIndex # segmentPage.currentSegmentIndex)
                    => loaded.currentAudio[1].paused

\* The segments whose playback the step from page p to page q starts: the
\* poll path suspends at play(), the auto-advance at its subtitle request.
StartedBetween(p, q) ==
    { i \in SegmentIds :
        \E at \in { "play", "subtitle" } :
            \E c \in BagToSet(q.calls) :
                /\ c.at = at /\ c.segment = i
                /\ CopiesIn(c, q.calls) > CopiesIn(c, p.calls) }

\* Starting a segment requires that it was not played, and records it.
StartsOnlyUnplayed(p, q) ==
    \A i \in StartedBetween(p, q) : i \notin p.playedSegments /\ i \in q.playedSegments

NextPreloaded ==
    /\ segmentPage.isActive
    /\ segmentPage.currentAudio # None
    /\ ~segmentPage.currentAudio[1].paused
    /\ (segmentPage.currentAudio[1].segment + 1) \in segmentPage.preloadedAudio
    /\ (segmentPage.currentAudio[1].segment + 1) \notin segmentPage.playedSegments

\* The end-of-audio handler switches to segment N + 1 and plays it.
Advances ==
    LET after == AfterEnded(segmentPage)
        next == segmentPage.currentAudio[1].segment + 1
    IN  /\ after.currentAudio # None
        /\ after.currentAudio[1].segment = next
        /\ ~after.currentAudio[1].paused
        /\ after.currentSegmentIndex = next
        /\ next \in after.playedSegments

\* C25: whenever the audio of a unit N ends naturally while the synchronizer is
\* active and unit N + 1 is preloaded and not in the played set, unit N + 1 is
\* switched to and played in the end-of-audio handler itself, for every N,
\* including an N that was itself reached through auto-advance.
C25_AutoAdvance == NextPreloaded => Advances

\* C26: after a seek has been handled, a poll-based reconciliation that was
\* started before it takes no effect: the answer to a segment request made for
\* the position before the seek loads and plays nothing.
C26_EventBeforePoll ==
    [][ \A time \in SegmentVideoTimes :
            SegmentUserSeeks(time) =>
                \A call \in BagToSet(segmentPage.calls) :
                    (call.at = "segment" /\ call.currentTime # time) =>
                        LET dropped == Returned(segmentPage', call)
                            answered == SegmentAnswered(segmentPage', call)
                        IN  /\ answered.currentAudio = dropped.currentAudio
                            /\ answered.currentSegmentIndex = dropped.currentSegmentIndex
                            /\ answered.playedSegments = dropped.playedSegments
      ]_vars

----------------------------------------------------------------------------
(* Claims about the creation of sessions (SpecCreate) *)

\* The triples (youtubeUrl, targetLang, index) of the segments of the sessions
\* that POST /session has created
SessionTriples ==
    { <<sessionObjs[sid].youtubeUrl, sessionObjs[sid].targetLang, i>> :
        sid \in DOMAIN sessionObjs, i \in 0..MaxTotalSegments }

\* C27: two different triples (youtubeUrl, targetLang, index) of sessions that
\* session creation accepted never have the same cache key.
C27_KeysCollisionFree ==
    \A a \in SessionTriples : \A b \in SessionTriples :
        a # b => CacheKey(a[1], a[2], a[3]) # CacheKey(b[1], b[2], b[3])

\* Neither the captions nor the fallback transcription yields a transcript.
CaptionsEmpty(captions) ==
    captions.threw \/ ~captions.success \/ Len(captions.segments) = 0
NoTranscript(captions, stt) ==
    CaptionsEmpty(captions) /\ (stt.threw \/ Len(stt.segments) = 0)

NoTranscriptOutcomes ==
    { o \in CaptionOutcomes \X SttOutcomes : NoTranscript(o[1], o[2]) }

\* C29: when neither the captions nor the fallback transcription yields a
\* transcript, POST /session answers with an error, adds no session to the
\* store and starts no translation and no synthesis; and the fallback
\* transcriber is called only when the captions failed or had no segments.
C29_CreationFailure ==
    /\ \A u \in BodyUrls, l \in BodyLangs, o \in NoTranscriptOutcomes :
         ~ ENABLED ( /\ PostSession(u, l, o[1], o[2])
                     /\ ~ ( /\ postReply' # None
                            /\ postReply'[1].code = 400
                            /\ UNCHANGED <<sessionObjs, sessions, translating,
                                           audioTasks, redis>> ) )
    /\ \A u \in BodyUrls, c \in CaptionOutcomes, t \in SttOutcomes :
         fetchTranscript(u, c, t).sttCalled => CaptionsEmpty(c)

\* A creation has just been refused for want of a transcript while another
\* session is being translated.
C29_Witness ==
    /\ postReply = BadRequest("Failed to fetch transcript")
    /\ \E sid \in sessions : translating[sid].pc = "running"

----------------------------------------------------------------------------
(* Claims about the polling loops (SpecPoll) *)

\* The getDubbingProjectMetadata calls the loop has made so far
AttemptsMade(run) == IF run.pc = "metadata" THEN run.attempt + 1 ELSE run.attempt

\* C28: polling stops at a fixed ceiling of attempts, 60 for a chunk and 120
\* for a whole video; when the provider has reported neither dubbed nor failed
\* by then the unit is marked failed with a timed-out error, and when the
\* provider reports failed polling stops at once with that error.
C28_PollTimeout ==
    /\ [] (pollRun # None =>
             /\ AttemptsMade(pollRun[1]) <= maxAttempts(pollRun[1].kind)
             /\ pollRun[1].kind = "chunk" => AttemptsMade(pollRun[1]) <= 60
             /\ pollRun[1].kind = "video" => AttemptsMade(pollRun[1]) <= 120)
    /\ [][ (/\ pollRun # None
            /\ pollRun[1].pc = "sleep"
            /\ pollRun[1].attempt + 1 = maxAttempts(pollRun[1].kind)) =>
                /\ pollRun'[1].pc = "done"
                /\ pollRun'[1].status = "failed"
                /\ pollRun'[1].error = Some(TimedOutMessage(pollRun[1].kind)) ]_vars
    /\ [][ \A error \in ProviderErrors :
             MetadataResolved("failed", error) =>
                /\ pollRun'[1].pc = "done"
                /\ pollRun'[1].status = "failed"
                /\ pollRun'[1].error = Some(FailedMessage(pollRun[1].kind, error))
                /\ pollRun'[1].attempt = pollRun[1].attempt ]_vars

\* The loop of a whole video has used all its attempts.
C28_Witness ==
    /\ pollRun # None
    /\ pollRun[1].kind = "video"
    /\ pollRun[1].pc = "done"
    /\ pollRun[1].attempt = VideoMaxAttempts
    /\ pollRun[1].error = Some(TimedOutMessage("video"))

----------------------------------------------------------------------------
(* Claims about the status reads (SpecReads) *)

\* The state of both routers: the sessions and their segments, the store, and
\* the tasks and runs in flight
serverVars == <<sessionObjs, sessions, translating, audioTasks, redis,
                jobStore, dubCache, dubTasks>>

\* C30: a session-status query, a chunk-status query (getChunkForTime,
\* getJobStatus) and an audio fetch leave the sessions, the state of every
\* segment and chunk, the store and the tasks and runs in flight unchanged:
\* none of them can take a step that changes any of these.
C30_ReadsArePure ==
    /\ \A sid \in SessionIds :
         ~ ENABLED (GetStatus(sid) /\ ~ UNCHANGED serverVars)
    /\ \A sid \in SessionIds, i \in RequestIndices :
         ~ ENABLED (GetAudio(sid, i) /\ ~ UNCHANGED serverVars)
    /\ ~ ENABLED (GetJobStatus /\ ~ UNCHANGED serverVars)
    /\ \A t \in ReadTimes :
         ~ ENABLED (GetChunkForTime(t) /\ ~ UNCHANGED serverVars)

\* The queries can be made while a segment's audio is being generated and a
\* chunk other than the one asked for is being dubbed: the asked chunk is
\* pending and no run works on it.
C30_Witness ==
    /\ \E task \in TaskStates : task.pc = "speech"
    /\ \E sid \in sessions : StatusReply(sid).code = 200
    /\ jobStore # None
    /\ \E t \in ReadTimes :
         LET found == GetChunkForTimeResult(jobStore, t)
         IN  /\ found # None
             /\ found[1].status = "pending"
    /\ \E run \in DubRuns : run.pc = "poll"

----------------------------------------------------------------------------
(* Claims about the redistribution of a translated batch (SpecTranslate) *)

\* The number of segments in the batch the run of session sid is at
BatchLength(sid) ==
    Min(batchSize, Len(sessionObjs[sid].segments) - translating[sid].i)

\* C31, as stated: when the split yields a number of parts different from the
\* number of segments of the batch, the k-th segment of the batch gets part k
\* whenever there is a part k, and its original text otherwise.
C31_PartKToSegmentK ==
    [][ \A sid \in DOMAIN translating : \A tr \in SplitResults(batchSize) :
          LET i == translating[sid].i
              before == sessionObjs[sid].segments
              after == sessionObjs'[sid].segments
          IN  (TranslateBatchReturns(sid, tr) /\ Len(tr) # BatchLength(sid)) =>
                \A k \in BatchPositions(before, i) :
                    after[k].translatedText =
                        IF k - i <= Len(tr) THEN tr[k - i] ELSE before[k].originalText
      ]_vars

\* C31, amended: when the split yields a number of parts different from the
\* number of segments of the batch, the k-th segment of the batch gets part k
\* whenever there is a non-empty part k, and its original text when part k is
\* missing or empty; the parts beyond the batch are discarded: the session
\* keeps its segments and the segments outside the batch are left as they are.
C31_PositionalRedistribution ==
    [][ \A sid \in DOMAIN translating : \A tr \in SplitResults(batchSize) :
          LET i == translating[sid].i
              before == sessionObjs[sid].segments
              after == sessionObjs'[sid].segments
              batch == BatchPositions(before, i)
          IN  (TranslateBatchReturns(sid, tr) /\ Len(tr) # BatchLength(sid)) =>
                /\ Len(after) = Len(before)
                /\ \A k \in batch :
                    after[k].translatedText =
                        IF k - i <= Len(tr) /\ tr[k - i] # <<>>
                        THEN tr[k - i] ELSE before[k].originalText
                /\ \A k \in (1..Len(before)) \ batch : after[k] = before[k]
      ]_vars

\* The first batch of a session came back with fewer parts than segments: the
\* first segment has its part and the last two segments of the batch, which
\* cannot both have had an empty part, have their original texts.
C31_Witness ==
    \E sid \in DOMAIN translating :
        LET segments == sessionObjs[sid].segments
        IN  /\ translating[sid].i >= batchSize
            /\ segments[1].translatedText = TranslatedPart(1)
            /\ \A k \in {batchSize - 1, batchSize} :
                    /\ segments[k].originalText # <<>>
                    /\ segments[k].originalText # TranslatedPart(k)
                    /\ segments[k].translatedText = segments[k].originalText

----------------------------------------------------------------------------
(* Claims about the content of a segment (SpecTTS) *)

\* C32: within a session, a segment's translatedText is never rewritten once
\* it is populated, and a segment's audio is never replaced once it is
\* present: a ready segment stays ready with the same audio, whatever request,
\* cascade or task comes later.
C32_WriteOnce ==
    [][ \A sid \in DOMAIN sessionObjs :
          \A k \in 1..Len(sessionObjs[sid].segments) :
            LET before == sessionObjs[sid].segments[k]
                after == sessionObjs'[sid].segments[k]
            IN  /\ Len(sessionObjs'[sid].segments) = Len(sessionObjs[sid].segments)
                /\ before.translatedText # <<>> =>
                        after.translatedText = before.translatedText
                /\ before.audioBuffer # None =>
                        after.audioBuffer = before.audioBuffer
                /\ before.audioReady =>
                        /\ after.audioReady
                        /\ after.audioBuffer = before.audioBuffer
      ]_vars

\* The first segment of a session is ready, its audio is cached as the empty
\* string (which a later task would not adopt), and the cascade of its task
\* has started the production of the next segment.
C32_Witness ==
    \E sid \in DOMAIN sessionObjs :
        LET session == sessionObjs[sid]
        IN  /\ Len(session.segments) >= 2
            /\ session.segments[1].audioReady
            /\ session.segments[1].audioBuffer = Some(<<>>)
            /\ ~ CachedIsTruthy(RedisGet(redis,
                    CacheKey(session.youtubeUrl, session.targetLang, 0)))
            /\ \E task \in TaskStates : task.session = sid /\ task.index = 1

----------------------------------------------------------------------------
(* Claims about chunk requests that designate no chunk (SpecDub) *)

\* C33: for an existing job, requestChunk and getChunkForTime with an index or
\* a time that designates no chunk (past the last chunk, negative, or not a
\* number) return the not-found result, which the routes answer with 404, and
\* change no state; they do not raise an error.
C33_UnitNotFound ==
    jobStore # None =>
        /\ \A i \in NoChunkIndices(jobStore[1]) :
            /\ ~ requestChunk(jobStore, i).threw
            /\ ChunkRouteResponse(requestChunk(jobStore, i)).code = 404
            /\ ~ ENABLED (RequestNoChunk(i) /\ ~ UNCHANGED <<jobStore, dubCache, dubTasks>>)
        /\ \A t \in NoChunkTimes(jobStore[1]) :
            /\ ~ getChunkForTime(jobStore, t).threw
            /\ ChunkRouteResponse(getChunkForTime(jobStore, t)).code = 404

----------------------------------------------------------------------------
(* Claims about the cache of completed jobs (SpecDub) *)

\* createDubbingJob called once more for the same video and language: the job
\* it returns and the runs it starts.  It does not read the dub:<url>:<lang>
\* entry.
CreatedAgain(videoDuration) ==
    LET job == BeginNext(NewJob(videoDuration), 0)
    IN  [ job |-> job,
          runs |-> SetToBag({ [ kind |-> "next", job |-> job, frames |-> <<0>>,
                                pc |-> "set", error |-> None ] }) ]

\* C34: when a completed job of the video and language is in the cache,
\* creating a dubbing job for them returns the cached job and starts no run, so
\* that no dub-creation call is issued.
C34_CachedDubReused ==
    (dubCache # None /\ dubCache[1].status = "completed") =>
        \A d \in VideoDurations :
            /\ CreatedAgain(d).job = dubCache[1]
            /\ CreatedAgain(d).runs = EmptyBag

----------------------------------------------------------------------------
(* Claims about the prefetch cascade (SpecWarm) *)

\* The step ends the task: no task for its segment is left.
Settles(task) ==
    /\ BagIn(task, audioTasks)
    /\ ~ \E t \in DOMAIN audioTasks' :
            /\ audioTasks'[t] > 0
            /\ t.session = task.session
            /\ t.index = task.index

\* C35: when a task has made its segment N ready and ends, by synthesis or by
\* adoption of the cached audio, each of the segments N+1, N+2, N+3 that
\* exists, has translated text, is not ready and is not in the in-flight set
\* is in the in-flight set afterwards and has a task of its own.
C35_PrefetchCascade ==
    [][ \A task \in TaskStates :
          LET session == sessionObjs[task.session]
              after == sessionObjs'[task.session]
          IN  (Settles(task) /\ after.segments[task.index + 1].audioReady) =>
                \A n \in Started(session, { task.index + i : i \in 1..CascadeWidth }) :
                    /\ n \in after.generatingAudio
                    /\ \E t \in DOMAIN audioTasks' :
                        /\ audioTasks'[t] > 0
                        /\ t.session = task.session
                        /\ t.index = n
      ]_vars

----------------------------------------------------------------------------
(* Claims about the stored versions of the job (SpecDub) *)

\* C36: a chunk that is completed in the stored job is completed, with the
\* same audioUrl, in every later stored version of the job, and a chunk
\* becomes failed in the stored job only from processing, the status it has
\* while its own dub creation or polling is under way.
C36_FailureIsolation ==
    [][ (jobStore # None /\ jobStore' # None) =>
            \A i \in 1..Len(jobStore[1].chunks) :
                LET before == jobStore[1].chunks[i]
                    after == jobStore'[1].chunks[i]
                IN  /\ before.status = "completed" =>
                        /\ after.status = "completed"
                        /\ after.audioUrl = before.audioUrl
                    /\ (after.status = "failed" /\ before.status # "failed") =>
                        before.status = "processing"
      ]_vars

----------------------------------------------------------------------------
(* Claims about the states of a TTS session (SpecTTS) *)

\* The tasks of generateSegmentAudio for segment index of session sid that
\* have not passed the point where they make the segment ready or give up.
Unsettled(sid, index) ==
    { t \in TaskStates :
        t.session = sid /\ t.index = index /\ t.pc \in { "cache", "speech" } }

\* C37: in every reachable state of every session, a ready segment has
\* non-empty translatedText and is not in generatingAudio, a segment in
\* generatingAudio has a generateSegmentAudio task that has not settled, and
\* the counts GET /session/:sessionId reports satisfy
\* audioReadySegments <= translatedSegments <= totalSegments.
C37_SessionStates ==
    \A sid \in DOMAIN sessionObjs :
        LET session == sessionObjs[sid]
            reply == StatusReply(sid)
        IN  /\ \A k \in 1..Len(session.segments) :
                    /\ session.segments[k].audioReady =>
                            /\ Truthy(session.segments[k].translatedText)
                            /\ (k - 1) \notin session.generatingAudio
                    /\ (k - 1) \in session.generatingAudio =>
                            Unsettled(sid, k - 1) # {}
            /\ session.generatingAudio \subseteq 0..(Len(session.segments) - 1)
            /\ reply.code = 200 =>
                    /\ reply.audioReadySegments <= reply.translatedSegments
                    /\ reply.translatedSegments <= reply.totalSegments

\* A session with a ready segment and a translated segment in
\* generatingAudio, whose status is reported.
C37_Witness ==
    \E sid \in sessions :
        LET session == sessionObjs[sid]
            reply == StatusReply(sid)
        IN  /\ \E k \in 1..Len(session.segments) : session.segments[k].audioReady
            /\ session.generatingAudio # {}
            /\ reply.code = 200
            /\ 0 < reply.audioReadySegments
            /\ reply.audioReadySegments < reply.translatedSegments

\* C38: after DELETE /session/:sessionId no generateSegmentAudio is started
\* for the deleted session: the only tasks of a deleted session are those that
\* were in flight when it was deleted, each for an index of generatingAudio.
C38_NoWorkAfterDelete ==
    [][ \A sid \in Deleted :
            \A t \in DOMAIN audioTasks' :
                (t.session = sid /\ t.pc = "cache") =>
                    /\ CopiesIn(t, audioTasks') <= CopiesIn(t, audioTasks)
                    /\ t.index \in sessionObjs[sid].generatingAudio
      ]_vars

----------------------------------------------------------------------------
(* Claims about stopping the segment-based synchronizer (SpecSegmentSync) *)

\* C39: after stopTranslation and until the next start, the requests and
\* preloads started before the stop load, play and store nothing: while the
\* script is stopped there is no current audio and the Map of preloaded
\* audio is empty.
C39_NoStaleWork ==
    ~segmentPage.session =>
        /\ segmentPage.currentAudio = None
        /\ segmentPage.preloadedAudio = {}

----------------------------------------------------------------------------
(* Claims about the status of the stored job (SpecDub) *)

\* C40: once the stored job is completed or failed, its status does not
\* return to processing (a stored job that is completed has every chunk
\* completed in all reachable states).
C40_FinalStatusStays ==
    [][ (jobStore # None /\ jobStore' # None
            /\ jobStore[1].status \in { "completed", "failed" }) =>
                jobStore'[1].status # "processing" ]_vars

====
